---- MODULE Spec2Model ----
(***************************************************************************)
(* A model of pyvidsplit: five command-line scripts (concat_video,         *)
(* convert_video, remove_audio, split_video, split_audio) that validate    *)
(* their arguments and drive the moviepy engine.                           *)
(*                                                                         *)
(* Text is modelled as a sequence of one-character strings, so that        *)
(* strip(), split(':'), int() and float() are computed character by        *)
(* character.  A float is the record [neg, ip, fr]: sign, integer part     *)
(* and the fraction's digits without trailing zeros (exact decimals; the   *)
(* binary rounding of Python floats is not modelled).                      *)
(***************************************************************************)
EXTENDS Integers, Sequences, FiniteSets, TLC

VARIABLES
    duration_str,     \* parse_duration: the argument
    parse_result,     \* parse_duration: the returned value (None before the call)
    file_path,        \* validate_input_file: the argument
    fs,               \* the filesystem: what os/pathlib report of each path touched
    validate_result,  \* validate_input_file: the returned pair
    op,               \* the script whose function or main() runs
    argv,             \* main(): the parsed command line, Idle for a direct call
    args,             \* the orchestration function's arguments
    pc,               \* the position inside main() / the orchestration function
    loc,              \* the orchestration function's local variables
    calls,            \* the engine calls made so far, in order
    live,             \* the engine handles that are open
    written,          \* the output paths an encode has written
    ret,              \* the orchestration function's outcome, None while it runs
    exit_code,        \* main(): the exit code and the error printed, None while it runs
    warnings          \* main(): the outputs an overwrite warning was printed for

vars == <<duration_str, parse_result, file_path, fs, validate_result, op, argv, args,
          pc, loc, calls, live, written, ret, exit_code, warnings>>

\* An optional value is a sequence of at most one element: Python's None (and
\* a raised ValueError, where a conversion is tried) is the empty one.
None == <<>>
Some(x) == <<x>>
Val(o) == o[1]

----------------------------------------------------------------------------
\* Bounds of the model.

\* Longest duration string given to parse_duration.
MaxLen == 6

\* Largest number of seconds a split point or a reported duration takes.
MaxDur == 3

----------------------------------------------------------------------------
\* Text.

\* The characters the strings given to parse_duration alone are drawn from:
\* two digits, sign, colon, decimal point, blank and a letter.
Chars == {"0", "6", "-", ":", ".", " ", "a"}

Digits == {"0", "1", "2", "3", "4", "5", "6", "7", "8", "9"}

DigitVal(c) ==
    CASE c = "0" -> 0 [] c = "1" -> 1 [] c = "2" -> 2 [] c = "3" -> 3 [] c = "4" -> 4
      [] c = "5" -> 5 [] c = "6" -> 6 [] c = "7" -> 7 [] c = "8" -> 8 [] c = "9" -> 9

Strings(n) == UNION {[1..k -> Chars] : k \in 0..n}

RECURSIVE LStrip(_)
LStrip(s) == IF s # <<>> /\ s[1] = " " THEN LStrip(Tail(s)) ELSE s

RECURSIVE RStrip(_)
RStrip(s) ==
    IF s # <<>> /\ s[Len(s)] = " " THEN RStrip(SubSeq(s, 1, Len(s) - 1)) ELSE s

\* str.strip()
Strip(s) == RStrip(LStrip(s))

\* str.split(sep): the pieces between the separators (always at least one).
RECURSIVE SplitAcc(_, _, _)
SplitAcc(s, sep, cur) ==
    IF s = <<>> THEN <<cur>>
    ELSE IF s[1] = sep THEN <<cur>> \o SplitAcc(Tail(s), sep, <<>>)
    ELSE SplitAcc(Tail(s), sep, Append(cur, s[1]))

Split(s, sep) == SplitAcc(s, sep, <<>>)

AllDigits(s) == \A i \in 1..Len(s) : s[i] \in Digits

RECURSIVE DigitsVal(_)
DigitsVal(s) ==
    IF s = <<>> THEN 0
    ELSE 10 * DigitsVal(SubSeq(s, 1, Len(s) - 1)) + DigitVal(s[Len(s)])

RECURSIVE DropTrailingZeros(_)
DropTrailingZeros(s) ==
    IF s # <<>> /\ s[Len(s)] = "0"
    THEN DropTrailingZeros(SubSeq(s, 1, Len(s) - 1)) ELSE s

\* A raised ValueError.
ValueError == None

\* Python's int(text): blanks stripped, an optional sign, then digits.
\* (The alphabet has no '+' and no '_', which int() would also accept.)
PyInt(s) ==
    LET t == Strip(s)
        neg == t # <<>> /\ t[1] = "-"
        body == IF neg THEN Tail(t) ELSE t
    IN  IF body # <<>> /\ AllDigits(body)
        THEN Some(IF neg THEN 0 - DigitsVal(body) ELSE DigitsVal(body))
        ELSE ValueError

\* Python's float(text): blanks stripped, an optional sign, then digits with
\* at most one decimal point and at least one digit.  (The alphabet has no
\* exponent, 'inf' or 'nan'.)  -0.0 is kept apart from 0.0 as Python does.
PyFloat(s) ==
    LET t == Strip(s)
        neg == t # <<>> /\ t[1] = "-"
        body == IF neg THEN Tail(t) ELSE t
        pieces == Split(body, ".")
        ipart == pieces[1]
        fpart == IF Len(pieces) = 2 THEN pieces[2] ELSE <<>>
    IN  IF /\ Len(pieces) <= 2
           /\ AllDigits(ipart) /\ AllDigits(fpart)
           /\ Len(ipart) + Len(fpart) > 0
        THEN Some([neg |-> neg, ip |-> DigitsVal(ipart),
                   fr |-> DropTrailingZeros(fpart)])
        ELSE ValueError

\* The float of an integer n.
FloatOf(n) ==
    [neg |-> n < 0, ip |-> IF n < 0 THEN 0 - n ELSE n, fr |-> <<>>]

IsZero(x) == x.ip = 0 /\ x.fr = <<>>

\* x > 0
Positive(x) == ~x.neg /\ ~IsZero(x)

\* 0 <= x  (true of -0.0)
NonNegative(x) == ~x.neg \/ IsZero(x)

\* x < n for an integer n > 0
BelowInt(x, n) == x.neg \/ x.ip < n

\* n + x for an integer n >= 0 and a float x >= 0
IntPlus(n, x) == [neg |-> FALSE, ip |-> n + x.ip, fr |-> x.fr]

\* a < b for two fractions (digit sequences without trailing zeros)
RECURSIVE FracLess(_, _)
FracLess(a, b) ==
    IF b = <<>> THEN FALSE
    ELSE IF a = <<>> THEN TRUE
    ELSE IF a[1] # b[1] THEN DigitVal(a[1]) < DigitVal(b[1])
    ELSE FracLess(Tail(a), Tail(b))

\* |x| < |y|
MagLess(x, y) == x.ip < y.ip \/ (x.ip = y.ip /\ FracLess(x.fr, y.fr))

Negative(x) == x.neg /\ ~IsZero(x)

\* x < y
FloatLess(x, y) ==
    IF Negative(x) /\ ~Negative(y) THEN TRUE
    ELSE IF ~Negative(x) /\ Negative(y) THEN FALSE
    ELSE IF Negative(x) THEN MagLess(y, x)
    ELSE MagLess(x, y)

\* x >= y
FloatGE(x, y) == ~FloatLess(x, y)

----------------------------------------------------------------------------
\* parse_duration (split_video.py and split_audio.py hold the same text).

\* The first attempt: the whole text as a float, kept only if > 0.
ParseSeconds(s) ==
    LET seconds == PyFloat(s)
    IN  IF seconds # ValueError /\ Positive(Val(seconds)) THEN seconds ELSE None

\* len(parts) == 2
ParseMMSS(parts) ==
    LET minutes == PyInt(parts[1])
        seconds == PyFloat(parts[2])
    IN  IF minutes = ValueError \/ seconds = ValueError THEN None
        ELSE IF /\ Val(minutes) >= 0
                /\ NonNegative(Val(seconds)) /\ BelowInt(Val(seconds), 60)
        THEN Some(IntPlus(Val(minutes) * 60, Val(seconds)))
        ELSE None

\* ParseHHMMSS with the minutes' upper limit off by one (<= 60 for < 60).
ParseHHMMSS_MinutesUpTo60(parts) ==
    LET hours == PyInt(parts[1])
        minutes == PyInt(parts[2])
        seconds == PyFloat(parts[3])
    IN  IF hours = ValueError \/ minutes = ValueError \/ seconds = ValueError
        THEN None
        ELSE IF /\ Val(hours) >= 0
                /\ 0 <= Val(minutes) /\ Val(minutes) <= 60
                /\ NonNegative(Val(seconds)) /\ BelowInt(Val(seconds), 60)
        THEN Some(IntPlus(Val(hours) * 3600 + Val(minutes) * 60, Val(seconds)))
        ELSE None

\* len(parts) == 3
ParseHHMMSS(parts) ==
    LET hours == PyInt(parts[1])
        minutes == PyInt(parts[2])
        seconds == PyFloat(parts[3])
    IN  IF hours = ValueError \/ minutes = ValueError \/ seconds = ValueError
        THEN None
        ELSE IF /\ Val(hours) >= 0
                /\ 0 <= Val(minutes) /\ Val(minutes) < 60
                /\ NonNegative(Val(seconds)) /\ BelowInt(Val(seconds), 60)
        THEN Some(IntPlus(Val(hours) * 3600 + Val(minutes) * 60, Val(seconds)))
        ELSE None

\* The argument is None or Some(text); the result None or Some(seconds).
parse_duration(duration_str_) ==
    IF duration_str_ = None THEN None
    ELSE LET s == Strip(Val(duration_str_))
             parts == Split(s, ":")
         IN  IF ParseSeconds(s) # None THEN ParseSeconds(s)
             ELSE IF Len(parts) = 2 THEN ParseMMSS(parts)
             ELSE IF Len(parts) = 3 THEN ParseHHMMSS(parts)
             ELSE None

----------------------------------------------------------------------------
\* Paths.  A path is [parent, name]: the directory ("." for a bare relative
\* name) and the file name as a sequence of tokens, <<"x", ".", "mp4">> for
\* x.mp4.  A token is a piece of text nothing else in the model splits: the
\* dot, a blank, an extension, a stem, or a suffix a deriver inserts.  No
\* token is made of other tokens, so two names are the same text exactly
\* when they are the same sequence.

\* The directory the process runs in: os.path.abspath puts it before a
\* relative path.
Cwd == "/d"

Path(parent, name) == [parent |-> parent, name |-> name]

Dots(name) == {i \in 1..Len(name) : name[i] = "."}

\* name.rfind('.')
LastDot(name) == CHOOSE i \in Dots(name) : \A j \in Dots(name) : j <= i

\* pathlib splits a name at its last dot unless that dot starts or ends it.
HasSuffix(name) == Dots(name) # {} /\ 1 < LastDot(name) /\ LastDot(name) < Len(name)

\* pathlib's suffix: the last dot and what follows it, or ''.
Suffix(p) ==
    IF HasSuffix(p.name) THEN SubSeq(p.name, LastDot(p.name), Len(p.name)) ELSE <<>>

\* pathlib's stem: the name without its suffix.
Stem(p) ==
    IF HasSuffix(p.name) THEN SubSeq(p.name, 1, LastDot(p.name) - 1) ELSE p.name

\* os.path.abspath
Abspath(p) == Path(IF p.parent = "." THEN Cwd ELSE p.parent, p.name)

\* str.lower() on the tokens that occur.
LowerToken(t) ==
    CASE t = "MP4" -> "mp4"
      [] t = "M4A" -> "m4a"
      [] t = "MOV" -> "mov"
      [] t = "X" -> "x"
      [] OTHER -> t

Lower(text) == [i \in 1..Len(text) |-> LowerToken(text[i])]

\* path.suffix.lower()
LowerSuffix(p) == Lower(Suffix(p))

\* ['.mp4', ...] for a set of extension tokens.
Dotted(exts) == {<<".", e>> : e \in exts}

\* The text of a path argument: None, '', blanks only, or a path.
NonePath == [kind |-> "None", path |-> Path(".", <<>>)]
EmptyPath == [kind |-> "empty", path |-> Path(".", <<>>)]
BlankPath == [kind |-> "blank", path |-> Path(".", <<>>)]
PathArg(p) == [kind |-> "path", path |-> p]

\* What the filesystem reports of one path: exists(), is_file(), os.access(R_OK).
Stat(e, f, r) == [exists |-> e, is_file |-> f, readable |-> r]

\* A missing path, a directory (readable or not), a file (readable or not).
Stats == {Stat(FALSE, FALSE, FALSE), Stat(TRUE, FALSE, TRUE), Stat(TRUE, FALSE, FALSE),
          Stat(TRUE, TRUE, FALSE), Stat(TRUE, TRUE, TRUE)}

ReadableFile == Stat(TRUE, TRUE, TRUE)

----------------------------------------------------------------------------
\* Messages.  An f-string is [text, arg]: its fixed text and the values put
\* into it; '' is the message with no text and no value.

Msg(text, arg) == [text |-> text, arg |-> arg]

NoMsg == Msg("", <<>>)

MsgEmpty(m) == m.text = "" /\ (m.arg = <<>> \/ m.arg = <<"">>)

\* The pair (is_valid, error_message) or (success, error_message).
Pair(b, m) == [success |-> b, message |-> m]

----------------------------------------------------------------------------
\* validate_input_file: the same text in the five scripts, but for the
\* extension list and the word video/audio of the last message.

Scripts == {"concat_video", "convert_video", "remove_audio", "split_video", "split_audio"}

concat_video_exts == {"mp4", "avi", "mov", "mkv", "flv", "wmv"}

convert_video_exts == {"mp4", "avi", "mov", "mkv", "flv", "wmv", "webm", "m4v"}

remove_audio_exts == {"mp4", "avi", "mov", "mkv", "flv", "wmv", "webm", "m4v"}

split_video_exts == {"mp4", "avi", "mov", "mkv", "flv", "wmv"}

split_audio_exts == {"m4a", "mp3", "wav", "aac", "flac", "ogg"}

InputExts(script) ==
    CASE script = "concat_video" -> concat_video_exts
      [] script = "convert_video" -> convert_video_exts
      [] script = "remove_audio" -> remove_audio_exts
      [] script = "split_video" -> split_video_exts
      [] script = "split_audio" -> split_audio_exts

NotMediaText(script) ==
    IF script = "split_audio" THEN "File does not appear to be an audio file: "
    ELSE "File does not appear to be a video file: "

\* validate_input_file with the readability check made before the
\* existence check.
validate_input_file_ReadableFirst(script, file_path_, fs_) ==
    IF file_path_.kind # "path"
    THEN Pair(FALSE, Msg("Input file path is empty", <<>>))
    ELSE LET st == fs_[Abspath(file_path_.path)]
         IN  IF ~st.readable
             THEN Pair(FALSE, Msg("Input file is not readable: ", <<file_path_>>))
             ELSE IF ~st.exists
             THEN Pair(FALSE, Msg("Input file does not exist: ", <<file_path_>>))
             ELSE IF ~st.is_file
             THEN Pair(FALSE, Msg("Path is not a file: ", <<file_path_>>))
             ELSE IF LowerSuffix(file_path_.path) \notin Dotted(InputExts(script))
             THEN Pair(FALSE, Msg(NotMediaText(script), <<file_path_>>))
             ELSE Pair(TRUE, NoMsg)

validate_input_file(script, file_path_, fs_) ==
    IF file_path_.kind # "path"
    THEN Pair(FALSE, Msg("Input file path is empty", <<>>))
    ELSE LET st == fs_[Abspath(file_path_.path)]
         IN  IF ~st.exists
             THEN Pair(FALSE, Msg("Input file does not exist: ", <<file_path_>>))
             ELSE IF ~st.is_file
             THEN Pair(FALSE, Msg("Path is not a file: ", <<file_path_>>))
             ELSE IF ~st.readable
             THEN Pair(FALSE, Msg("Input file is not readable: ", <<file_path_>>))
             ELSE IF LowerSuffix(file_path_.path) \notin Dotted(InputExts(script))
             THEN Pair(FALSE, Msg(NotMediaText(script), <<file_path_>>))
             ELSE Pair(TRUE, NoMsg)

----------------------------------------------------------------------------
\* The specification of parse_duration alone: any string of at most MaxLen
\* characters, or None, is parsed once.

Idle == "idle"

InitParse ==
    /\ duration_str \in {None} \cup {Some(s) : s \in Strings(MaxLen)}
    /\ parse_result = None
    /\ pc = "parse"
    /\ file_path = Idle /\ fs = Idle /\ validate_result = Idle
    /\ op = Idle /\ argv = Idle /\ args = Idle /\ loc = Idle
    /\ calls = <<>> /\ live = {} /\ written = {} /\ ret = None /\ exit_code = None /\ warnings = {}

ParseDuration ==
    /\ pc = "parse"
    /\ parse_result' = parse_duration(duration_str)
    /\ pc' = "parsed"
    /\ UNCHANGED <<duration_str, file_path, fs, validate_result, op, argv, args,
                   loc, calls, live, written, ret, exit_code, warnings>>

NextParse == ParseDuration

SpecParse == InitParse /\ [][NextParse]_vars

\* The trimmed text of the string that was parsed.
Trimmed == Strip(Val(duration_str))

\* C6: whatever the input, parse_duration returns None or a number of
\* seconds that is strictly positive.
C6_ResultIsNoneOrPositive ==
    (pc = "parsed" /\ parse_result # None) => Positive(Val(parse_result))

\* C7: an input whose trimmed text begins with '-' parses to None, in every
\* shape and whatever the signed component is.
C7_LeadingMinusIsInvalid ==
    (pc = "parsed" /\ duration_str # None /\ Trimmed # <<>> /\ Trimmed[1] = "-")
        => parse_result = None

\* The reference of C8, read off the claim: the shape is decided by the
\* number of colons of the trimmed text, the fields are cut at the colons.
ColonsOf(t) == {i \in 1..Len(t) : t[i] = ":"}

FirstColon(t) == CHOOSE i \in ColonsOf(t) : \A j \in ColonsOf(t) : i <= j

LastColon(t) == CHOOSE i \in ColonsOf(t) : \A j \in ColonsOf(t) : j <= i

IsInteger(f) == PyInt(f) # ValueError

IsDecimal(f) == PyFloat(f) # ValueError

SecondsField(f) ==
    IsDecimal(f) /\ NonNegative(Val(PyFloat(f))) /\ Val(PyFloat(f)).ip < 60

RefSeconds(t) ==
    IF IsDecimal(t) /\ Positive(Val(PyFloat(t))) THEN PyFloat(t) ELSE None

RefMS(t) ==
    LET m == SubSeq(t, 1, FirstColon(t) - 1)
        sec == SubSeq(t, FirstColon(t) + 1, Len(t))
    IN  IF IsInteger(m) /\ Val(PyInt(m)) >= 0 /\ SecondsField(sec)
        THEN Some([neg |-> FALSE, ip |-> Val(PyInt(m)) * 60 + Val(PyFloat(sec)).ip,
                   fr |-> Val(PyFloat(sec)).fr])
        ELSE None

RefHMS(t) ==
    LET h == SubSeq(t, 1, FirstColon(t) - 1)
        m == SubSeq(t, FirstColon(t) + 1, LastColon(t) - 1)
        sec == SubSeq(t, LastColon(t) + 1, Len(t))
    IN  IF /\ IsInteger(h) /\ Val(PyInt(h)) >= 0
           /\ IsInteger(m) /\ Val(PyInt(m)) \in 0..59
           /\ SecondsField(sec)
        THEN Some([neg |-> FALSE,
                   ip |-> Val(PyInt(h)) * 3600 + Val(PyInt(m)) * 60
                          + Val(PyFloat(sec)).ip,
                   fr |-> Val(PyFloat(sec)).fr])
        ELSE None

RefDuration(d) ==
    IF d = None THEN None
    ELSE LET t == Strip(Val(d))
         IN  CASE Cardinality(ColonsOf(t)) = 0 -> RefSeconds(t)
               [] Cardinality(ColonsOf(t)) = 1 -> RefMS(t)
               [] Cardinality(ColonsOf(t)) = 2 -> RefHMS(t)
               [] OTHER -> None

----------------------------------------------------------------------------
\* The specification of validate_input_file alone: one script's validator is
\* given a path argument, the filesystem reporting anything of that path.

ValidateNames ==
    {<<"x", ".", "mp4">>, <<"x", ".", "MP4">>, <<"x", ".", "webm">>,
     <<"x", ".", "m4a">>, <<"x", ".", "M4A">>, <<"x", ".", "txt">>, <<"x">>,
     <<"x", ".", "mp4", ".", "txt">>, <<"x", ".", "txt", ".", "mp4">>,
     <<".", "mp4">>, <<"mp4">>, <<"x", ".", "mp4", ".">>}

ValidateArgs ==
    {NonePath, EmptyPath, BlankPath}
        \cup {PathArg(Path(d, n)) : d \in {".", "/d"}, n \in ValidateNames}

InitValidate ==
    /\ op \in Scripts
    /\ file_path \in ValidateArgs
    /\ fs \in [{Abspath(file_path.path)} -> Stats]
    /\ validate_result = Pair(FALSE, NoMsg)
    /\ pc = "validate"
    /\ duration_str = None /\ parse_result = None
    /\ argv = Idle /\ args = Idle /\ loc = Idle
    /\ calls = <<>> /\ live = {} /\ written = {} /\ ret = None /\ exit_code = None /\ warnings = {}

ValidateInputFile ==
    /\ pc = "validate"
    /\ validate_result' = validate_input_file(op, file_path, fs)
    /\ pc' = "validated"
    /\ UNCHANGED <<duration_str, parse_result, file_path, fs, op, argv, args,
                   loc, calls, live, written, ret, exit_code, warnings>>

NextValidate == ValidateInputFile

SpecValidate == InitValidate /\ [][NextValidate]_vars

\* The five preconditions of C9, each read off the argument and the
\* filesystem, and the text that names each.
PathGiven == file_path.kind = "path"

PathStat == fs[Abspath(file_path.path)]

\* The name ends in a dot and an extension of the script's list, in any
\* letter case, and something stands before that dot.
ExtAllowed ==
    LET n == file_path.path.name
    IN  /\ Len(n) >= 3
        /\ n[Len(n) - 1] = "."
        /\ \E e \in InputExts(op) : LowerToken(n[Len(n)]) = e

FirstFailure ==
    CASE ~PathGiven -> "Input file path is empty"
      [] PathGiven /\ ~PathStat.exists -> "Input file does not exist: "
      [] PathGiven /\ PathStat.exists /\ ~PathStat.is_file -> "Path is not a file: "
      [] PathGiven /\ PathStat.exists /\ PathStat.is_file /\ ~PathStat.readable
            -> "Input file is not readable: "
      [] PathGiven /\ PathStat.exists /\ PathStat.is_file /\ PathStat.readable
            /\ ~ExtAllowed -> NotMediaText(op)
      [] OTHER -> ""

\* C9: validate_input_file reports the first failing check in the order
\* empty, does not exist, not a file, not readable, extension not allowed,
\* and returns (True, '') exactly when all five pass.
C9_FirstFailureWins ==
    pc = "validated" =>
        /\ validate_result.message.text = FirstFailure
        /\ validate_result.success <=> FirstFailure = ""
        /\ validate_result.success <=> validate_result.message = NoMsg
        /\ validate_result.success <=>
              (PathGiven /\ PathStat.exists /\ PathStat.is_file /\ PathStat.readable
               /\ ExtAllowed)

\* A directory that is unreadable and has no allowed extension violates three
\* checks and is reported as 'not a file' only.
C9_Witness ==
    /\ pc = "validated"
    /\ PathGiven /\ PathStat.exists /\ ~PathStat.is_file /\ ~PathStat.readable
    /\ ~ExtAllowed
    /\ validate_result = Pair(FALSE, Msg("Path is not a file: ", <<file_path>>))

----------------------------------------------------------------------------
\* The engine (moviepy) as the orchestration functions use it.  A call is
\* logged whether it returns or raises.  Handles are numbered in the order
\* the engine creates them: by opening a file, by trimming, concatenating or
\* muting a clip.  moviepy is taken to be installed (the import succeeds).

\* str(e) of an exception the engine raises; it may be empty.
Errors == {"", "engine error"}

\* What a clip's .duration may hold: None or a number of seconds.
ReportedDurations == {None} \cup {Some(FloatOf(n)) : n \in 0..MaxDur}

NoParams == [codec |-> "", audio_codec |-> None, crf |-> None, bitrate |-> None,
             audio |-> TRUE]

Call(name, ok, h, new) ==
    [call |-> name, ok |-> ok, h |-> h, new |-> new, path |-> None, range |-> <<>>,
     val |-> None, srcs |-> <<>>, params |-> NoParams]

\* The locals of an orchestration function: the resolved quality parameter,
\* the audio codec, total_duration, and the handle each clip variable holds.
InitLoc ==
    [crf |-> 0, bitrate |-> "", codec |-> "", total_duration |-> None,
     clip |-> <<>>, handles |-> 0]

NewHandle == loc.handles + 1

Bind(var, h) == (var :> h) @@ loc.clip

\* What the function hands back: a returned pair, or an exception that
\* leaves the function.
Returned(b, m) == [raised |-> FALSE, success |-> b, message |-> m]

Propagated(e) == [raised |-> TRUE, success |-> FALSE, message |-> Msg("", <<e>>)]

\* An except clause that lets the exception through.
ExceptReturn_Propagates(script, label, e) == Propagated(e)

\* An except clause that hands back the engine's text with no prefix.
ExceptReturn_RawText(script, label, e) == Returned(FALSE, Msg("", <<e>>))

\* The except clauses: the outer `except Exception as e` of each function,
\* and split_audio's inner ones around the creation of each part.
ExceptReturn(script, label, e) ==
    CASE script = "concat_video" ->
            Returned(FALSE, Msg("Error concatenating videos: ", <<e>>))
      [] script = "convert_video" ->
            Returned(FALSE, Msg("Error converting video: ", <<e>>))
      [] script = "remove_audio" ->
            Returned(FALSE, Msg("Error removing audio from video: ", <<e>>))
      [] script = "split_video" ->
            Returned(FALSE, Msg("Error splitting video: ", <<e>>))
      [] script = "split_audio" /\ label \in {"sa_open1", "sa_trim1", "sa_encode1",
                                              "sa_close_part1", "sa_close_audio1"} ->
            Returned(FALSE, Msg("Failed to create part 1: ", <<e>>))
      [] script = "split_audio" /\ label \in {"sa_open2", "sa_trim2", "sa_encode2",
                                              "sa_close_part2", "sa_close_audio2"} ->
            Returned(FALSE, Msg("Failed to create part 2: ", <<e>>))
      [] OTHER ->
            Returned(FALSE, Msg("Error splitting audio: ", <<e>>))

\* Control: go on at a label, return a pair, or leave through the except
\* clause that encloses the label.
Goto(label) == pc' = label /\ ret' = ret

Return(b, m) == pc' = "returned" /\ ret' = Some(Returned(b, m))

Raise(label) ==
    \E e \in Errors : pc' = "returned" /\ ret' = Some(ExceptReturn(op, label, e))

Untouched == UNCHANGED <<duration_str, parse_result, file_path, fs, validate_result,
                         op, argv, args, exit_code, warnings>>

\* A load whose failure removes what was written before it.
EngineOpen_RollsBack(label, path, var, next) ==
    /\ pc = label
    /\ \/ /\ calls' = Append(calls, [Call("open", TRUE, 0, NewHandle)
                                        EXCEPT !.path = Some(path)])
          /\ live' = live \cup {NewHandle}
          /\ loc' = [loc EXCEPT !.clip = Bind(var, NewHandle), !.handles = NewHandle]
          /\ Goto(next)
          /\ UNCHANGED written
       \/ /\ calls' = Append(calls, [Call("open", FALSE, 0, 0) EXCEPT !.path = Some(path)])
          /\ Raise(label)
          /\ written' = {}
          /\ UNCHANGED <<live, loc>>
    /\ Untouched

\* VideoFileClip(path) / AudioFileClip(path), bound to the variable var.
EngineOpen(label, path, var, next) ==
    /\ pc = label
    /\ \/ /\ calls' = Append(calls, [Call("open", TRUE, 0, NewHandle)
                                        EXCEPT !.path = Some(path)])
          /\ live' = live \cup {NewHandle}
          /\ loc' = [loc EXCEPT !.clip = Bind(var, NewHandle), !.handles = NewHandle]
          /\ Goto(next)
       \/ /\ calls' = Append(calls, [Call("open", FALSE, 0, 0) EXCEPT !.path = Some(path)])
          /\ Raise(label)
          /\ UNCHANGED <<live, loc>>
    /\ UNCHANGED written
    /\ Untouched

\* clip.subclipped(start, end), bound to var; end is None when the engine
\* is handed None for it.
EngineTrim(label, h, start, end, var, next) ==
    /\ pc = label
    /\ \/ /\ calls' = Append(calls, [Call("trim", TRUE, h, NewHandle)
                                        EXCEPT !.range = <<Some(start), end>>])
          /\ live' = live \cup {NewHandle}
          /\ loc' = [loc EXCEPT !.clip = Bind(var, NewHandle), !.handles = NewHandle]
          /\ Goto(next)
       \/ /\ calls' = Append(calls, [Call("trim", FALSE, h, 0)
                                        EXCEPT !.range = <<Some(start), end>>])
          /\ Raise(label)
          /\ UNCHANGED <<live, loc>>
    /\ UNCHANGED written
    /\ Untouched

\* clip.write_videofile(out, ...) / clip.write_audiofile(out, ...)
EngineEncode(label, h, out, params, next) ==
    /\ pc = label
    /\ \/ /\ calls' = Append(calls, [Call("encode", TRUE, h, 0)
                                        EXCEPT !.path = Some(out), !.params = params])
          /\ written' = written \cup {out}
          /\ Goto(next)
       \/ /\ calls' = Append(calls, [Call("encode", FALSE, h, 0)
                                        EXCEPT !.path = Some(out), !.params = params])
          /\ Raise(label)
          /\ UNCHANGED written
    /\ UNCHANGED <<live, loc>>
    /\ Untouched

\* clip.close(), followed by the next statement or by `return False, m`.
EngineClose(label, h, next) ==
    /\ pc = label
    /\ \/ /\ calls' = Append(calls, Call("close", TRUE, h, 0))
          /\ live' = live \ {h}
          /\ Goto(next)
       \/ /\ calls' = Append(calls, Call("close", FALSE, h, 0))
          /\ Raise(label)
          /\ UNCHANGED live
    /\ UNCHANGED <<loc, written>>
    /\ Untouched

EngineCloseReturn(label, h, b, m) ==
    /\ pc = label
    /\ \/ /\ calls' = Append(calls, Call("close", TRUE, h, 0))
          /\ live' = live \ {h}
          /\ Return(b, m)
       \/ /\ calls' = Append(calls, Call("close", FALSE, h, 0))
          /\ Raise(label)
          /\ UNCHANGED live
    /\ UNCHANGED <<loc, written>>
    /\ Untouched

\* The log entry of a read of clip.duration that gave d.
DurationRead(h, d) == [Call("duration", TRUE, h, 0) EXCEPT !.val = d]

----------------------------------------------------------------------------
\* Quality presets.

Presets == {"high", "medium", "low"}

\* quality_map of split_video and remove_audio, with 'low' given medium's CRF.
video_quality_map_LowAsMedium(quality) ==
    CASE quality = "high" -> 18
      [] quality = "medium" -> 23
      [] quality = "low" -> 23

\* quality_map of split_video and remove_audio: the CRF of each preset.
video_quality_map(quality) ==
    CASE quality = "high" -> 18
      [] quality = "medium" -> 23
      [] quality = "low" -> 28

\* quality_map of split_audio: the bitrate of each preset.
audio_quality_map(quality) ==
    CASE quality = "high" -> "192k"
      [] quality = "medium" -> "128k"
      [] quality = "low" -> "96k"

\* codec_map.get(output_ext, 'aac') of split_audio.
audio_codec_map(ext) ==
    CASE ext = <<".", "m4a">> -> "aac"
      [] ext = <<".", "mp3">> -> "libmp3lame"
      [] ext = <<".", "wav">> -> "pcm_s16le"
      [] ext = <<".", "aac">> -> "aac"
      [] ext = <<".", "flac">> -> "flac"
      [] ext = <<".", "ogg">> -> "libvorbis"
      [] OTHER -> "aac"

InvalidQuality(quality) ==
    Msg("Invalid quality preset: ", <<quality>>)

----------------------------------------------------------------------------
\* split_video(input_file, duration_seconds, output_part1, output_part2, quality)

VideoParams(crf) ==
    [codec |-> "libx264", audio_codec |-> Some("aac"), crf |-> Some(crf),
     bitrate |-> None, audio |-> TRUE]

\* The checks made before the try block.
SV_Check ==
    /\ pc = "call" /\ op = "split_video"
    /\ IF ~Positive(args.duration_seconds)
       THEN /\ Return(FALSE, Msg("Duration must be positive, got: ",
                                 <<args.duration_seconds>>))
            /\ UNCHANGED loc
       ELSE IF args.quality \notin Presets
       THEN /\ Return(FALSE, InvalidQuality(args.quality))
            /\ UNCHANGED loc
       ELSE /\ loc' = [loc EXCEPT !.crf = video_quality_map(args.quality)]
            /\ Goto("sv_open")
    /\ UNCHANGED <<calls, live, written>>
    /\ Untouched

SV_Open == EngineOpen("sv_open", args.input_file, "video", "sv_duration")

\* SV_Duration with a split point past the end clamped to the total instead
\* of rejected: the function goes on to trim and encode.
SV_Duration_Clamped ==
    /\ pc = "sv_duration"
    /\ \E d \in ReportedDurations :
          /\ calls' = Append(calls, DurationRead(loc.clip["video"], d))
          /\ loc' = [loc EXCEPT !.total_duration = d]
          /\ IF d = None THEN Goto("sv_close_unknown") ELSE Goto("sv_trim1")
    /\ UNCHANGED <<live, written>>
    /\ Untouched

\* total_duration = video.duration, and the two checks made of it.
SV_Duration ==
    /\ pc = "sv_duration"
    /\ \E d \in ReportedDurations :
          /\ calls' = Append(calls, DurationRead(loc.clip["video"], d))
          /\ loc' = [loc EXCEPT !.total_duration = d]
          /\ IF d = None THEN Goto("sv_close_unknown")
             ELSE IF FloatGE(args.duration_seconds, Val(d)) THEN Goto("sv_close_exceeds")
             ELSE Goto("sv_trim1")
    /\ UNCHANGED <<live, written>>
    /\ Untouched

SV_CloseUnknown ==
    EngineCloseReturn("sv_close_unknown", loc.clip["video"], FALSE,
                      Msg("Unable to determine video duration", <<>>))

SV_CloseExceeds ==
    EngineCloseReturn("sv_close_exceeds", loc.clip["video"], FALSE,
                      Msg("Split duration exceeds video length",
                          <<args.duration_seconds, loc.total_duration>>))

SV_Trim1 ==
    EngineTrim("sv_trim1", loc.clip["video"], FloatOf(0), Some(args.duration_seconds),
               "part1", "sv_encode1")

SV_Encode1 ==
    EngineEncode("sv_encode1", loc.clip["part1"], args.output_part1,
                 VideoParams(loc.crf), "sv_close_part1")

SV_ClosePart1 == EngineClose("sv_close_part1", loc.clip["part1"], "sv_close_video")

\* A first load that is left open while the second part is made.
SV_CloseVideo_Skipped ==
    /\ pc = "sv_close_video"
    /\ Goto("sv_open2")
    /\ UNCHANGED <<calls, live, loc, written>>
    /\ Untouched

SV_CloseVideo == EngineClose("sv_close_video", loc.clip["video"], "sv_open2")

SV_Open2 == EngineOpen("sv_open2", args.input_file, "video2", "sv_trim2")

\* A second part cut from the start of the source.
SV_Trim2_FromZero ==
    \E d \in ReportedDurations :
        EngineTrim("sv_trim2", loc.clip["video2"], FloatOf(0), d, "part2", "sv_encode2")

\* video2.subclipped(duration_seconds, video2.duration): the end of the range
\* is what the second load reports.
SV_Trim2 ==
    \E d \in ReportedDurations :
        EngineTrim("sv_trim2", loc.clip["video2"], args.duration_seconds, d,
                   "part2", "sv_encode2")

SV_Encode2 ==
    EngineEncode("sv_encode2", loc.clip["part2"], args.output_part2,
                 VideoParams(loc.crf), "sv_close_part2")

SV_ClosePart2 == EngineClose("sv_close_part2", loc.clip["part2"], "sv_close_video2")

SV_CloseVideo2 ==
    EngineCloseReturn("sv_close_video2", loc.clip["video2"], TRUE, NoMsg)

split_video ==
    \/ SV_Check \/ SV_Open \/ SV_Duration \/ SV_CloseUnknown \/ SV_CloseExceeds
    \/ SV_Trim1 \/ SV_Encode1 \/ SV_ClosePart1 \/ SV_CloseVideo
    \/ SV_Open2 \/ SV_Trim2 \/ SV_Encode2 \/ SV_ClosePart2 \/ SV_CloseVideo2

----------------------------------------------------------------------------
\* split_audio(input_file, duration_seconds, output_part1, output_part2, quality)

AudioParams(bitrate, codec) ==
    [codec |-> codec, audio_codec |-> None, crf |-> None, bitrate |-> Some(bitrate),
     audio |-> TRUE]

\* What Python raises for `duration_seconds >= None`.
TypeErrorText == "'>=' not supported between instances of 'float' and 'NoneType'"

\* The checks made before the try block, and the codec chosen from the
\* extension of output_part1.
SA_Check ==
    /\ pc = "call" /\ op = "split_audio"
    /\ IF ~Positive(args.duration_seconds)
       THEN /\ Return(FALSE, Msg("Duration must be positive, got: ",
                                 <<args.duration_seconds>>))
            /\ UNCHANGED loc
       ELSE IF args.quality \notin Presets
       THEN /\ Return(FALSE, InvalidQuality(args.quality))
            /\ UNCHANGED loc
       ELSE /\ loc' = [loc EXCEPT !.bitrate = audio_quality_map(args.quality),
                                  !.codec = audio_codec_map(LowerSuffix(args.output_part1))]
            /\ Goto("sa_open")
    /\ UNCHANGED <<calls, live, written>>
    /\ Untouched

SA_Open == EngineOpen("sa_open", args.input_file, "audio", "sa_duration")

\* total_duration = audio.duration and the comparison with it, which raises
\* a TypeError inside the outer try when the duration is None.
SA_Duration ==
    /\ pc = "sa_duration"
    /\ \E d \in ReportedDurations :
          /\ calls' = Append(calls, DurationRead(loc.clip["audio"], d))
          /\ loc' = [loc EXCEPT !.total_duration = d]
          /\ IF d = None
             THEN /\ pc' = "returned"
                  /\ ret' = Some(ExceptReturn(op, "sa_duration", TypeErrorText))
             ELSE IF FloatGE(args.duration_seconds, Val(d)) THEN Goto("sa_close_exceeds")
             ELSE Goto("sa_close_audio")
    /\ UNCHANGED <<live, written>>
    /\ Untouched

SA_CloseExceeds ==
    EngineCloseReturn("sa_close_exceeds", loc.clip["audio"], FALSE,
                      Msg("Split duration exceeds audio length",
                          <<args.duration_seconds, loc.total_duration>>))

SA_CloseAudio == EngineClose("sa_close_audio", loc.clip["audio"], "sa_open1")

SA_Open1 == EngineOpen("sa_open1", args.input_file, "audio1", "sa_trim1")

SA_Trim1 ==
    EngineTrim("sa_trim1", loc.clip["audio1"], FloatOf(0), Some(args.duration_seconds),
               "part1", "sa_encode1")

SA_Encode1 ==
    EngineEncode("sa_encode1", loc.clip["part1"], args.output_part1,
                 AudioParams(loc.bitrate, loc.codec), "sa_close_part1")

SA_ClosePart1 == EngineClose("sa_close_part1", loc.clip["part1"], "sa_close_audio1")

SA_CloseAudio1 == EngineClose("sa_close_audio1", loc.clip["audio1"], "sa_open2")

SA_Open2 == EngineOpen("sa_open2", args.input_file, "audio2", "sa_trim2")

SA_Trim2 ==
    EngineTrim("sa_trim2", loc.clip["audio2"], args.duration_seconds, loc.total_duration,
               "part2", "sa_encode2")

SA_Encode2 ==
    EngineEncode("sa_encode2", loc.clip["part2"], args.output_part2,
                 AudioParams(loc.bitrate, loc.codec), "sa_close_part2")

SA_ClosePart2 == EngineClose("sa_close_part2", loc.clip["part2"], "sa_close_audio2")

SA_CloseAudio2 ==
    EngineCloseReturn("sa_close_audio2", loc.clip["audio2"], TRUE, NoMsg)

split_audio ==
    \/ SA_Check \/ SA_Open \/ SA_Duration \/ SA_CloseExceeds \/ SA_CloseAudio
    \/ SA_Open1 \/ SA_Trim1 \/ SA_Encode1 \/ SA_ClosePart1 \/ SA_CloseAudio1
    \/ SA_Open2 \/ SA_Trim2 \/ SA_Encode2 \/ SA_ClosePart2 \/ SA_CloseAudio2

----------------------------------------------------------------------------
\* concat_videos(input_file1, input_file2, output_file)

\* `duration is None or duration <= 0`
Undetermined(d) == d = None \/ ~Positive(Val(d))

PlainParams ==
    [codec |-> "libx264", audio_codec |-> Some("aac"), crf |-> None, bitrate |-> None,
     audio |-> TRUE]

\* A call that makes a new clip of others: concatenate_videoclips, with_audio.
EngineDerive(label, name, srcs, var, next) ==
    /\ pc = label
    /\ \/ /\ calls' = Append(calls, [Call(name, TRUE, srcs[1], NewHandle)
                                        EXCEPT !.srcs = srcs])
          /\ live' = live \cup {NewHandle}
          /\ loc' = [loc EXCEPT !.clip = Bind(var, NewHandle), !.handles = NewHandle]
          /\ Goto(next)
       \/ /\ calls' = Append(calls, [Call(name, FALSE, srcs[1], 0) EXCEPT !.srcs = srcs])
          /\ Raise(label)
          /\ UNCHANGED <<live, loc>>
    /\ UNCHANGED written
    /\ Untouched

CC_Open1 ==
    /\ op = "concat_video"
    /\ EngineOpen("call", args.input_file1, "video1", "cc_duration1")

CC_Duration1 ==
    /\ pc = "cc_duration1"
    /\ \E d \in ReportedDurations :
          /\ calls' = Append(calls, DurationRead(loc.clip["video1"], d))
          /\ IF Undetermined(d) THEN Goto("cc_close1_unknown1") ELSE Goto("cc_open2")
    /\ UNCHANGED <<loc, live, written>>
    /\ Untouched

CC_Close1Unknown1 ==
    EngineCloseReturn("cc_close1_unknown1", loc.clip["video1"], FALSE,
                      Msg("Unable to determine duration for video 1: ",
                          <<args.input_file1>>))

CC_Open2 == EngineOpen("cc_open2", args.input_file2, "video2", "cc_duration2")

CC_Duration2 ==
    /\ pc = "cc_duration2"
    /\ \E d \in ReportedDurations :
          /\ calls' = Append(calls, DurationRead(loc.clip["video2"], d))
          /\ IF Undetermined(d) THEN Goto("cc_close1_unknown2") ELSE Goto("cc_concat")
    /\ UNCHANGED <<loc, live, written>>
    /\ Untouched

CC_Close1Unknown2 ==
    EngineClose("cc_close1_unknown2", loc.clip["video1"], "cc_close2_unknown2")

CC_Close2Unknown2 ==
    EngineCloseReturn("cc_close2_unknown2", loc.clip["video2"], FALSE,
                      Msg("Unable to determine duration for video 2: ",
                          <<args.input_file2>>))

\* The two clips concatenated in the reverse of the input order.
CC_Concat_Reversed ==
    EngineDerive("cc_concat", "concatenate",
                 <<loc.clip["video2"], loc.clip["video1"]>>, "final_video", "cc_encode")

CC_Concat ==
    EngineDerive("cc_concat", "concatenate",
                 <<loc.clip["video1"], loc.clip["video2"]>>, "final_video", "cc_encode")

CC_Encode ==
    EngineEncode("cc_encode", loc.clip["final_video"], args.output_file, PlainParams,
                 "cc_close_final")

CC_CloseFinal == EngineClose("cc_close_final", loc.clip["final_video"], "cc_close1")

CC_Close1 == EngineClose("cc_close1", loc.clip["video1"], "cc_close2")

CC_Close2 == EngineCloseReturn("cc_close2", loc.clip["video2"], TRUE, NoMsg)

concat_videos ==
    \/ CC_Open1 \/ CC_Duration1 \/ CC_Close1Unknown1 \/ CC_Open2 \/ CC_Duration2
    \/ CC_Close1Unknown2 \/ CC_Close2Unknown2 \/ CC_Concat \/ CC_Encode
    \/ CC_CloseFinal \/ CC_Close1 \/ CC_Close2

----------------------------------------------------------------------------
\* convert_video(input_file, output_file)

\* A codec table without the .avi branch.
ConvertParams_AviAsDefault(output_ext) ==
    CASE output_ext = <<".", "webm">> ->
            [PlainParams EXCEPT !.codec = "libvpx", !.audio_codec = Some("libvorbis")]
      [] OTHER -> PlainParams

\* The codecs chosen from the lowercased extension of the output path.
ConvertParams(output_ext) ==
    CASE output_ext = <<".", "mp4">> -> PlainParams
      [] output_ext = <<".", "avi">> -> [PlainParams EXCEPT !.codec = "png",
                                                           !.audio_codec = None]
      [] output_ext = <<".", "mov">> -> PlainParams
      [] output_ext = <<".", "webm">> ->
            [PlainParams EXCEPT !.codec = "libvpx", !.audio_codec = Some("libvorbis")]
      [] OTHER -> PlainParams

CV_Open ==
    /\ op = "convert_video"
    /\ EngineOpen("call", args.input_file, "video", "cv_duration")

CV_Duration ==
    /\ pc = "cv_duration"
    /\ \E d \in ReportedDurations :
          /\ calls' = Append(calls, DurationRead(loc.clip["video"], d))
          /\ IF Undetermined(d) THEN Goto("cv_close_unknown") ELSE Goto("cv_encode")
    /\ UNCHANGED <<loc, live, written>>
    /\ Untouched

CV_CloseUnknown ==
    EngineCloseReturn("cv_close_unknown", loc.clip["video"], FALSE,
                      Msg("Unable to determine video duration: ", <<args.input_file>>))

CV_Encode ==
    EngineEncode("cv_encode", loc.clip["video"], args.output_file,
                 ConvertParams(LowerSuffix(args.output_file)), "cv_close")

CV_Close == EngineCloseReturn("cv_close", loc.clip["video"], TRUE, NoMsg)

convert_video == CV_Open \/ CV_Duration \/ CV_CloseUnknown \/ CV_Encode \/ CV_Close

----------------------------------------------------------------------------
\* remove_audio(input_file, output_file, quality)

\* Encode parameters that leave the audio in.
SilentParams_KeepsAudio(crf) ==
    [codec |-> "libx264", audio_codec |-> None, crf |-> Some(crf), bitrate |-> None,
     audio |-> TRUE]

SilentParams(crf) ==
    [codec |-> "libx264", audio_codec |-> None, crf |-> Some(crf), bitrate |-> None,
     audio |-> FALSE]

RA_Check ==
    /\ pc = "call" /\ op = "remove_audio"
    /\ IF args.quality \notin Presets
       THEN /\ Return(FALSE, InvalidQuality(args.quality))
            /\ UNCHANGED loc
       ELSE /\ loc' = [loc EXCEPT !.crf = video_quality_map(args.quality)]
            /\ Goto("ra_open")
    /\ UNCHANGED <<calls, live, written>>
    /\ Untouched

RA_Open == EngineOpen("ra_open", args.input_file, "video", "ra_duration")

RA_Duration ==
    /\ pc = "ra_duration"
    /\ \E d \in ReportedDurations :
          /\ calls' = Append(calls, DurationRead(loc.clip["video"], d))
          /\ IF Undetermined(d) THEN Goto("ra_close_unknown") ELSE Goto("ra_audio")
    /\ UNCHANGED <<loc, live, written>>
    /\ Untouched

RA_CloseUnknown ==
    EngineCloseReturn("ra_close_unknown", loc.clip["video"], FALSE,
                      Msg("Unable to determine video duration: ", <<args.input_file>>))

\* has_audio = video.audio is not None: only a message depends on it.
RA_Audio ==
    /\ pc = "ra_audio"
    /\ \E has_audio \in BOOLEAN :
          calls' = Append(calls, [Call("audio", TRUE, loc.clip["video"], 0)
                                     EXCEPT !.val = Some(has_audio)])
    /\ Goto("ra_mute")
    /\ UNCHANGED <<loc, live, written>>
    /\ Untouched

RA_Mute ==
    EngineDerive("ra_mute", "with_audio", <<loc.clip["video"]>>, "video_without_audio",
                 "ra_encode")

RA_Encode ==
    EngineEncode("ra_encode", loc.clip["video_without_audio"], args.output_file,
                 SilentParams(loc.crf), "ra_close_silent")

RA_CloseSilent ==
    EngineClose("ra_close_silent", loc.clip["video_without_audio"], "ra_close")

RA_Close == EngineCloseReturn("ra_close", loc.clip["video"], TRUE, NoMsg)

remove_audio ==
    \/ RA_Check \/ RA_Open \/ RA_Duration \/ RA_CloseUnknown \/ RA_Audio \/ RA_Mute
    \/ RA_Encode \/ RA_CloseSilent \/ RA_Close

----------------------------------------------------------------------------
\* The specification of the five orchestration functions called directly:
\* any split point, any quality string, an engine that may fail at any call.

\* Quality strings: the presets, wrong case, a number, empty, blank.
Qualities == Presets \cup {"HIGH", "Medium", "23", "", " "}

\* Split points, from -1 to MaxDur seconds.
SplitPoints == {FloatOf(n) : n \in -1..MaxDur}

VideoIn == Path(".", <<"x", ".", "mp4">>)

VideoIn2 == Path(".", <<"y", ".", "mp4">>)

AudioIn == Path(".", <<"x", ".", "m4a">>)

VideoOut == Path(".", <<"out", ".", "mp4">>)

VideoOuts == {Path(".", <<"out", ".", e>>) : e \in {"mp4", "avi", "webm", "mkv", "MOV"}}
                \cup {Path(".", <<"out">>)}

AudioOuts == {Path(".", <<"out", ".", e>>) : e \in {"m4a", "mp3", "xyz"}}

CallArgs(script) ==
    CASE script = "concat_video" ->
            [input_file1 : {VideoIn}, input_file2 : {VideoIn2}, output_file : {VideoOut}]
      [] script = "convert_video" ->
            [input_file : {VideoIn, Path(".", <<"x", ".", "avi">>)}, output_file : VideoOuts]
      [] script = "remove_audio" ->
            [input_file : {VideoIn}, output_file : {VideoOut}, quality : Qualities]
      [] script = "split_video" ->
            [input_file : {VideoIn}, duration_seconds : SplitPoints,
             output_part1 : {Path(".", <<"p1", ".", "mp4">>)},
             output_part2 : {Path(".", <<"p2", ".", "mp4">>)}, quality : Qualities]
      [] script = "split_audio" ->
            [input_file : {AudioIn}, duration_seconds : SplitPoints,
             output_part1 : AudioOuts,
             output_part2 : {Path(".", <<"p2", ".", "wav">>)}, quality : Qualities]

Init ==
    /\ op \in Scripts
    /\ args \in CallArgs(op)
    /\ pc = "call"
    /\ loc = InitLoc
    /\ calls = <<>> /\ live = {} /\ written = {} /\ ret = None
    /\ argv = Idle /\ exit_code = None /\ warnings = {}
    /\ duration_str = None /\ parse_result = None
    /\ file_path = Idle /\ fs = Idle /\ validate_result = Idle

Next == concat_videos \/ convert_video \/ remove_audio \/ split_video \/ split_audio

Spec == Init /\ [][Next]_vars

----------------------------------------------------------------------------
\* The functions as the test modules reach them: `from <module> import
\* <name>` followed by a call with keyword arguments.

\* `args` before the function is called.
NotCalled == [called |-> FALSE]

\* The top-level functions each module defines.
ModuleNames(script) ==
    CASE script = "concat_video" ->
            {"validate_input_file", "generate_output_filename", "concat_videos", "main"}
      [] script = "convert_video" ->
            {"validate_input_file", "validate_output_format", "generate_output_filename",
             "convert_video", "main"}
      [] script = "remove_audio" ->
            {"validate_input_file", "generate_output_filename", "remove_audio", "main"}
      [] script = "split_video" ->
            {"parse_duration", "validate_input_file", "generate_output_filenames",
             "split_video", "main"}
      [] script = "split_audio" ->
            {"parse_duration", "validate_input_file", "generate_output_filenames",
             "split_audio", "main"}

\* The parameters of each orchestration function, and those with no default.
Parameters(name) ==
    CASE name = "concat_videos" -> {"input_file1", "input_file2", "output_file"}
      [] name = "convert_video" -> {"input_file", "output_file"}
      [] name = "remove_audio" -> {"input_file", "output_file", "quality"}
      [] name \in {"split_video", "split_audio"} ->
            {"input_file", "duration_seconds", "output_part1", "output_part2", "quality"}

Required(name) == Parameters(name) \ {"quality"}

\* quality: str = 'medium'
WithDefaults(name, kwargs) ==
    IF "quality" \in Parameters(name) /\ "quality" \notin DOMAIN kwargs
    THEN kwargs @@ [quality |-> "medium"]
    ELSE kwargs

\* The import and the call: a name the module does not define raises
\* ImportError, keyword arguments that do not fit the signature TypeError.
ImportCall ==
    /\ pc = "import"
    /\ IF argv.name \notin ModuleNames(op)
       THEN pc' = "raised" /\ ret' = Some(Propagated("ImportError")) /\ args' = args
       ELSE IF ~(/\ Required(argv.name) \subseteq DOMAIN argv.kwargs
                 /\ DOMAIN argv.kwargs \subseteq Parameters(argv.name))
       THEN pc' = "raised" /\ ret' = Some(Propagated("TypeError")) /\ args' = args
       ELSE pc' = "call" /\ ret' = ret /\ args' = WithDefaults(argv.name, argv.kwargs)
    /\ UNCHANGED <<duration_str, parse_result, file_path, fs, validate_result,
                   op, argv, loc, calls, live, written, exit_code, warnings>>

\* Quality values the tests pass.
TestQualities == {"high", "best", "23"}

\* Split points the tests pass.
TestSplitPoints == {FloatOf(n) : n \in -1..1}

WithOrWithoutQuality(fields) ==
    fields \cup {f @@ [quality |-> q] : f \in fields, q \in TestQualities}

ImportKwargs(script) ==
    CASE script = "concat_video" ->
            WithOrWithoutQuality([input_file1 : {VideoIn}, input_file2 : {VideoIn2},
                                  output_file : {VideoOut}])
      [] script = "convert_video" ->
            [input_file : {VideoIn}, output_file : {VideoOut}]
      [] script = "remove_audio" ->
            WithOrWithoutQuality([input_file : {VideoIn}, output_file : {VideoOut}])
      [] script = "split_video" ->
            WithOrWithoutQuality([input_file : {VideoIn}, duration_seconds : TestSplitPoints,
                                  output_part1 : {Path(".", <<"p1", ".", "mp4">>)},
                                  output_part2 : {Path(".", <<"p2", ".", "mp4">>)}])
      [] script = "split_audio" ->
            WithOrWithoutQuality([input_file : {AudioIn}, duration_seconds : TestSplitPoints,
                                  output_part1 : {Path(".", <<"p1", ".", "m4a">>)},
                                  output_part2 : {Path(".", <<"p2", ".", "m4a">>)}])

\* The names the tests import from each module.
ImportNames(script) ==
    CASE script = "concat_video" -> {"concat_videos", "concat_video"}
      [] script = "split_video" -> {"split_video", "split_video_ffmpeg"}
      [] OTHER -> {script}

InitImport ==
    /\ op \in Scripts
    /\ argv \in [name : ImportNames(op), kwargs : ImportKwargs(op)]
    /\ pc = "import"
    /\ args = NotCalled
    /\ loc = InitLoc
    /\ calls = <<>> /\ live = {} /\ written = {} /\ ret = None /\ exit_code = None /\ warnings = {}
    /\ duration_str = None /\ parse_result = None
    /\ file_path = Idle /\ fs = Idle /\ validate_result = Idle

NextImport ==
    \/ ImportCall
    \/ concat_videos \/ convert_video \/ remove_audio \/ split_video \/ split_audio

SpecImport == InitImport /\ [][NextImport]_vars

----------------------------------------------------------------------------
\* The output path derivers and validate_output_format.

\* A deriver that appends the part marker after the extension.
split_generate_output_filenames_AfterSuffix(input_path) ==
    <<Path(input_path.parent, input_path.name \o <<"_part1">>),
      Path(input_path.parent, input_path.name \o <<"_part2">>)>>

\* split_video.py / split_audio.py: generate_output_filenames
split_generate_output_filenames(input_path) ==
    <<Path(input_path.parent, Stem(input_path) \o <<"_part1">> \o Suffix(input_path)),
      Path(input_path.parent, Stem(input_path) \o <<"_part2">> \o Suffix(input_path))>>

\* remove_audio.py: generate_output_filename
remove_generate_output_filename(input_path) ==
    Path(input_path.parent, Stem(input_path) \o <<"_silent">> \o Suffix(input_path))

\* A deriver that takes the extension of the second input.
concat_generate_output_filename_SecondSuffix(input1_path, input2_path) ==
    Path(input1_path.parent,
         Stem(input1_path) \o <<"_concat_">> \o Stem(input2_path) \o Suffix(input2_path))

\* concat_video.py: generate_output_filename
concat_generate_output_filename(input1_path, input2_path) ==
    Path(input1_path.parent,
         Stem(input1_path) \o <<"_concat_">> \o Stem(input2_path) \o Suffix(input1_path))

\* output_format[1:] if it starts with a dot
WithoutLeadingDot(text) == IF text # <<>> /\ text[1] = "." THEN Tail(text) ELSE text

\* A deriver that keeps the letter case of the format.
convert_generate_output_filename_KeepsCase(input_path, output_format) ==
    Path(input_path.parent,
         Stem(input_path) \o <<".">> \o WithoutLeadingDot(output_format))

\* convert_video.py: generate_output_filename
convert_generate_output_filename(input_path, output_format) ==
    Path(input_path.parent,
         Stem(input_path) \o <<".">> \o Lower(WithoutLeadingDot(output_format)))

valid_formats == {"mp4", "avi", "mov", "mkv", "flv", "wmv", "webm", "m4v"}

\* A validator that forgets to remove the leading dot.
validate_output_format_KeepsDot(format_str) ==
    IF format_str = None \/ Strip(Val(format_str)) = <<>>
    THEN Pair(FALSE, Msg("Output format is empty", <<>>))
    ELSE LET f == Lower(Strip(Val(format_str)))
         IN  IF f \notin {<<e>> : e \in valid_formats}
             THEN Pair(FALSE, Msg("Unsupported output format: ", <<f>>))
             ELSE Pair(TRUE, NoMsg)

\* convert_video.py: validate_output_format; the argument is None or Some(text).
validate_output_format(format_str) ==
    IF format_str = None \/ Strip(Val(format_str)) = <<>>
    THEN Pair(FALSE, Msg("Output format is empty", <<>>))
    ELSE LET f == WithoutLeadingDot(Lower(Strip(Val(format_str))))
         IN  IF f \notin {<<e>> : e \in valid_formats}
             THEN Pair(FALSE, Msg("Unsupported output format: ", <<f>>))
             ELSE Pair(TRUE, NoMsg)

----------------------------------------------------------------------------
\* The specification of validate_output_format alone: it is given None or
\* any text of up to MaxFmt tokens.

\* The longest format text, in tokens.
MaxFmt == 3

\* Blank, dot, the eight formats, two of them in upper case, and a foreign one.
FormatTokens ==
    {" ", ".", "mp4", "MP4", "avi", "mov", "MOV", "mkv", "flv", "wmv", "webm", "m4v", "mp3"}

FormatTexts == UNION {[1..n -> FormatTokens] : n \in 0..MaxFmt}

InitFormat ==
    /\ op = "convert_video"
    /\ args \in [format_str : {None} \cup {Some(t) : t \in FormatTexts}]
    /\ ret = None
    /\ pc = "format"
    /\ duration_str = None /\ parse_result = None
    /\ file_path = Idle /\ fs = Idle /\ validate_result = Idle
    /\ argv = Idle /\ loc = Idle
    /\ calls = <<>> /\ live = {} /\ written = {} /\ exit_code = None /\ warnings = {}

ValidateOutputFormat ==
    /\ pc = "format"
    /\ ret' = Some(validate_output_format(args.format_str))
    /\ pc' = "formatted"
    /\ UNCHANGED <<duration_str, parse_result, file_path, fs, validate_result, op, argv,
                   args, loc, calls, live, written, exit_code, warnings>>

NextFormat == ValidateOutputFormat

SpecFormat == InitFormat /\ [][NextFormat]_vars

----------------------------------------------------------------------------
\* The specification of the output path derivers alone: each module's
\* deriver is given any path (and a second path or a format).

\* File names: plain, upper case, none or several extensions, a leading dot,
\* a trailing dot, two dots in a row, and the empty name.
DeriveNames ==
    {<<"x", ".", "mp4">>, <<"X", ".", "MP4">>, <<"x">>, <<"x", ".", "tar", ".", "gz">>,
     <<".", "mp4">>, <<"x", ".">>, <<"x", ".", ".", "mp4">>, <<>>}

DerivePaths == {Path(d, n) : d \in {".", "/d", "sub"}, n \in DeriveNames}

DeriveFormats ==
    {<<"mov">>, <<".", "MOV">>, <<"MP4">>, <<".", ".", "mp4">>, <<" ", "mp4">>, <<>>}

DeriveArgs(script) ==
    CASE script = "concat_video" -> [input1_path : DerivePaths, input2_path : DerivePaths]
      [] script = "convert_video" -> [input_path : DerivePaths, output_format : DeriveFormats]
      [] OTHER -> [input_path : DerivePaths]

InitDerive ==
    /\ op \in Scripts
    /\ args \in DeriveArgs(op)
    /\ ret = None
    /\ pc = "derive"
    /\ duration_str = None /\ parse_result = None
    /\ file_path = Idle /\ fs = Idle /\ validate_result = Idle
    /\ argv = Idle /\ loc = Idle
    /\ calls = <<>> /\ live = {} /\ written = {} /\ exit_code = None /\ warnings = {}

Derived(result) ==
    /\ pc = "derive"
    /\ ret' = Some(result)
    /\ pc' = "derived"
    /\ UNCHANGED <<duration_str, parse_result, file_path, fs, validate_result, op, argv,
                   args, loc, calls, live, written, exit_code, warnings>>

GenerateConcat ==
    /\ op = "concat_video"
    /\ Derived(concat_generate_output_filename(args.input1_path, args.input2_path))

GenerateConvert ==
    /\ op = "convert_video"
    /\ Derived(convert_generate_output_filename(args.input_path, args.output_format))

GenerateRemove ==
    /\ op = "remove_audio"
    /\ Derived(remove_generate_output_filename(args.input_path))

GenerateSplit ==
    /\ op \in {"split_video", "split_audio"}
    /\ Derived(split_generate_output_filenames(args.input_path))

NextDerive == GenerateConcat \/ GenerateConvert \/ GenerateRemove \/ GenerateSplit

SpecDerive == InitDerive /\ [][NextDerive]_vars

----------------------------------------------------------------------------
\* main() of each script, from the parsed command line to the call of the
\* orchestration function, and the exit that follows the call.  argparse has
\* already restricted --quality to the three presets.  What main() decides
\* is computed from the command line and the filesystem it is given.

Called == "called" \notin DOMAIN args

\* sys.exit(code) after `error` was printed to stderr.
Exit(code, error) ==
    /\ pc' = "exited"
    /\ exit_code' = Some([code |-> code, error |-> error])

\* The two ways main() goes on: it exits, or it calls the function with `a`;
\* `warned` holds the outputs it printed an overwrite warning for.
Exits(code, error, warned) ==
    [exit |-> Some([code |-> code, error |-> error]), call |-> None, warned |-> warned]

Calls(a, warned) == [exit |-> None, call |-> Some(a), warned |-> warned]

\* if os.path.exists(output): print a warning
Existing(fs_, outs) == {o \in outs : fs_[Abspath(o)].exists}

MainFrame == UNCHANGED <<duration_str, parse_result, file_path, fs, validate_result,
                         op, argv, loc, calls, live, written, ret>>

MainStep(outcome) ==
    /\ pc = "main"
    /\ warnings' = outcome.warned
    /\ IF outcome.exit # None
       THEN pc' = "exited" /\ exit_code' = outcome.exit /\ args' = args
       ELSE pc' = "call" /\ args' = Val(outcome.call) /\ exit_code' = exit_code
    /\ MainFrame

\* `args.output` is truthy
Given(o) == o # None

\* The output path(s) main() settles on.
concat_outputs ==
    <<IF Given(argv.output) THEN Val(argv.output)
      ELSE concat_generate_output_filename(argv.input1.path, argv.input2.path)>>

convert_outputs ==
    <<IF Given(argv.output) THEN Val(argv.output)
      ELSE convert_generate_output_filename(argv.input.path, argv.format)>>

remove_outputs ==
    <<IF Given(argv.output) THEN Val(argv.output)
      ELSE remove_generate_output_filename(argv.input.path)>>

\* split_video.py: the explicit outputs are used only when both are given.
split_video_outputs ==
    IF Given(argv.output1) /\ Given(argv.output2)
    THEN <<Val(argv.output1), Val(argv.output2)>>
    ELSE split_generate_output_filenames(argv.input.path)

\* split_audio.py: each explicit output replaces the derived name of its part.
split_audio_outputs ==
    LET derived == split_generate_output_filenames(argv.input.path)
    IN  <<IF Given(argv.output1) THEN Val(argv.output1) ELSE derived[1],
          IF Given(argv.output2) THEN Val(argv.output2) ELSE derived[2]>>

\* A main() that validates the second input before the first.
concat_main_SecondFirst(fs_) ==
    LET v1 == validate_input_file(op, argv.input1, fs_)
        v2 == validate_input_file(op, argv.input2, fs_)
        output_file == concat_outputs[1]
    IN  IF ~v2.success
        THEN Exits(1, [v2.message EXCEPT !.arg = <<"second input">> \o @], {})
        ELSE IF ~v1.success
        THEN Exits(1, [v1.message EXCEPT !.arg = <<"first input">> \o @], {})
        ELSE Calls([input_file1 |-> argv.input1.path,
                    input_file2 |-> argv.input2.path,
                    output_file |-> output_file],
                   Existing(fs_, {output_file}))

concat_main(fs_) ==
    LET v1 == validate_input_file(op, argv.input1, fs_)
        v2 == validate_input_file(op, argv.input2, fs_)
        output_file == concat_outputs[1]
    IN  IF ~v1.success
        THEN Exits(1, [v1.message EXCEPT !.arg = <<"first input">> \o @], {})
        ELSE IF ~v2.success
        THEN Exits(1, [v2.message EXCEPT !.arg = <<"second input">> \o @], {})
        ELSE Calls([input_file1 |-> argv.input1.path,
                    input_file2 |-> argv.input2.path,
                    output_file |-> output_file],
                   Existing(fs_, {output_file}))

\* A main() without the comparison of the input path with the output path.
convert_main_NoSamePathCheck(fs_) ==
    LET v == validate_input_file(op, argv.input, fs_)
        vf == validate_output_format(Some(argv.format))
        output_ext == IF Given(argv.output) THEN LowerSuffix(Val(argv.output)) ELSE <<>>
        ve == validate_output_format(Some(WithoutLeadingDot(output_ext)))
        output_file == convert_outputs[1]
    IN  IF ~v.success THEN Exits(1, v.message, {})
        ELSE IF ~vf.success THEN Exits(1, vf.message, {})
        ELSE IF Given(argv.output) /\ output_ext # <<>> /\ ~ve.success
        THEN Exits(1, ve.message, {})
        ELSE Calls([input_file |-> argv.input.path, output_file |-> output_file],
                   Existing(fs_, {output_file}))

convert_main(fs_) ==
    LET v == validate_input_file(op, argv.input, fs_)
        vf == validate_output_format(Some(argv.format))
        output_ext == IF Given(argv.output) THEN LowerSuffix(Val(argv.output)) ELSE <<>>
        ve == validate_output_format(Some(WithoutLeadingDot(output_ext)))
        output_file == convert_outputs[1]
    IN  IF ~v.success THEN Exits(1, v.message, {})
        ELSE IF ~vf.success THEN Exits(1, vf.message, {})
        ELSE IF Given(argv.output) /\ output_ext # <<>> /\ ~ve.success
        THEN Exits(1, ve.message, {})
        ELSE IF Abspath(argv.input.path) = Abspath(output_file)
        THEN Exits(1, Msg("Input and output files are the same: ", <<output_file>>),
                   Existing(fs_, {output_file}))
        ELSE Calls([input_file |-> argv.input.path, output_file |-> output_file],
                   Existing(fs_, {output_file}))

remove_main(fs_) ==
    LET v == validate_input_file(op, argv.input, fs_)
        output_ext == IF Given(argv.output) THEN LowerSuffix(Val(argv.output)) ELSE <<>>
        output_file == remove_outputs[1]
    IN  IF ~v.success THEN Exits(1, v.message, {})
        ELSE IF /\ Given(argv.output) /\ output_ext # <<>>
                /\ output_ext \notin Dotted(remove_audio_exts)
        THEN Exits(1, Msg("Unsupported output file extension: ", <<output_ext>>), {})
        ELSE IF Abspath(argv.input.path) = Abspath(output_file)
        THEN Exits(1, Msg("Input and output files are the same: ", <<output_file>>),
                   Existing(fs_, {output_file}))
        ELSE Calls([input_file |-> argv.input.path, output_file |-> output_file,
                    quality |-> argv.quality],
                   Existing(fs_, {output_file}))

InvalidDuration(text) == Msg("Invalid duration format: ", <<text>>)

\* A main() that refuses to overwrite an existing part.
split_video_main_RefusesOverwrite(fs_) ==
    LET v == validate_input_file(op, argv.input, fs_)
        duration == parse_duration(Some(argv.duration))
        outs == split_video_outputs
    IN  IF ~v.success THEN Exits(1, v.message, {})
        ELSE IF duration = None THEN Exits(1, InvalidDuration(argv.duration), {})
        ELSE IF Existing(fs_, {outs[1], outs[2]}) # {}
        THEN Exits(1, Msg("Output file already exists", <<>>),
                   Existing(fs_, {outs[1], outs[2]}))
        ELSE Calls([input_file |-> argv.input.path,
                    duration_seconds |-> Val(duration),
                    output_part1 |-> outs[1], output_part2 |-> outs[2],
                    quality |-> argv.quality], {})

split_video_main(fs_) ==
    LET v == validate_input_file(op, argv.input, fs_)
        duration == parse_duration(Some(argv.duration))
        outs == split_video_outputs
    IN  IF ~v.success THEN Exits(1, v.message, {})
        ELSE IF duration = None THEN Exits(1, InvalidDuration(argv.duration), {})
        ELSE Calls([input_file |-> argv.input.path,
                    duration_seconds |-> Val(duration),
                    output_part1 |-> outs[1], output_part2 |-> outs[2],
                    quality |-> argv.quality],
                   Existing(fs_, {outs[1], outs[2]}))

\* split_audio.py prints no overwrite warning.
split_audio_main(fs_) ==
    LET v == validate_input_file(op, argv.input, fs_)
        duration == parse_duration(Some(argv.duration))
        outs == split_audio_outputs
    IN  IF ~v.success THEN Exits(1, v.message, {})
        ELSE IF duration = None THEN Exits(1, InvalidDuration(argv.duration), {})
        ELSE Calls([input_file |-> argv.input.path,
                    duration_seconds |-> Val(duration),
                    output_part1 |-> outs[1], output_part2 |-> outs[2],
                    quality |-> argv.quality], {})

\* What the main() of the script that runs decides on the filesystem fs_.
main(fs_) ==
    CASE op = "concat_video" -> concat_main(fs_)
      [] op = "convert_video" -> convert_main(fs_)
      [] op = "remove_audio" -> remove_main(fs_)
      [] op = "split_video" -> split_video_main(fs_)
      [] op = "split_audio" -> split_audio_main(fs_)

ConcatMain == op = "concat_video" /\ MainStep(concat_main(fs))

ConvertMain == op = "convert_video" /\ MainStep(convert_main(fs))

RemoveMain == op = "remove_audio" /\ MainStep(remove_main(fs))

SplitVideoMain == op = "split_video" /\ MainStep(split_video_main(fs))

SplitAudioMain == op = "split_audio" /\ MainStep(split_audio_main(fs))

\* The end of every main(): exit 0 on success, 1 with the message otherwise.
MainExit ==
    /\ pc = "returned"
    /\ IF Val(ret).success THEN Exit(0, NoMsg) ELSE Exit(1, Val(ret).message)
    /\ UNCHANGED <<duration_str, parse_result, file_path, fs, validate_result,
                   op, argv, args, loc, calls, live, written, ret, warnings>>

----------------------------------------------------------------------------
\* The specification of the five scripts run from the command line.

\* --duration values: seconds, M:S, a fraction, zero, a signed zero minute,
\* a value past every reported duration, and text that is no duration.
CliDurations ==
    {<<"2">>, <<"0", ":", "0", "1">>, <<"1", ".", "5">>, <<"0", ":", "0">>,
     <<"-", "0", ":", "1">>, <<"9">>, <<"x">>}

\* Input arguments: a media file by relative and by absolute path, a file
\* of another kind, and the empty string.
CliInputs(script) ==
    LET e == IF script = "split_audio" THEN "m4a" ELSE "mp4"
    IN  {PathArg(Path(".", <<"x", ".", e>>)), PathArg(Path("/d", <<"x", ".", e>>)),
         PathArg(Path(".", <<"x", ".", "txt">>)), EmptyPath}

\* -o values: none, a new file, the input itself by relative and by absolute
\* path; for the converter also a name without extension, one of a foreign
\* extension and one of another container.
CliOutputs(script) ==
    LET e == IF script = "split_audio" THEN "m4a" ELSE "mp4"
    IN  {None, Some(Path(".", <<"out", ".", e>>)), Some(Path(".", <<"x", ".", e>>)),
         Some(Path("/d", <<"x", ".", e>>))}
        \cup (IF script = "convert_video"
              THEN {Some(Path(".", <<"out">>)), Some(Path(".", <<"out", ".", "xyz">>)),
                    Some(Path(".", <<"out", ".", "webm">>))}
              ELSE {})

\* --format values: a format, one with dot and capitals, a foreign one, a
\* blank, and a format followed by a blank.
CliFormats == {<<"mp4">>, <<".", "MOV">>, <<"xyz">>, <<" ">>, <<"webm", " ">>}

CliStats == {ReadableFile, Stat(FALSE, FALSE, FALSE), Stat(TRUE, FALSE, TRUE)}

Argv(script) ==
    CASE script = "concat_video" ->
            [input1 : CliInputs(script),
             input2 : {PathArg(Path(".", <<"y", ".", "mp4">>)),
                       PathArg(Path(".", <<"x", ".", "mp4">>))},
             output : CliOutputs(script)]
      [] script = "convert_video" ->
            [input : CliInputs(script), output : CliOutputs(script), format : CliFormats]
      [] script = "remove_audio" ->
            [input : CliInputs(script), output : CliOutputs(script), quality : Presets]
      [] script \in {"split_video", "split_audio"} ->
            [input : CliInputs(script), duration : CliDurations,
             output1 : CliOutputs(script),
             output2 : {None, Some(Path(".", <<"out2", ".", "mp4">>))},
             quality : Presets]

InputsOf(script, a) ==
    IF script = "concat_video" THEN {a.input1, a.input2} ELSE {a.input}

\* The absolute paths of the inputs and of the outputs main() settles on.
InputFiles == {Abspath(i.path) : i \in InputsOf(op, argv)}

main_outputs ==
    CASE op = "concat_video" -> concat_outputs
      [] op = "convert_video" -> convert_outputs
      [] op = "remove_audio" -> remove_outputs
      [] op = "split_video" -> split_video_outputs
      [] op = "split_audio" -> split_audio_outputs

OutputFiles == {Abspath(main_outputs[k]) : k \in DOMAIN main_outputs}

\* An output that is no input is either missing or a file left by an earlier run.
OutputStats == {Stat(FALSE, FALSE, FALSE), ReadableFile}

InitCli ==
    /\ op \in Scripts
    /\ argv \in Argv(op)
    /\ \E ins \in [InputFiles -> CliStats], outs \in [OutputFiles \ InputFiles -> OutputStats] :
          fs = [p \in InputFiles \cup OutputFiles |->
                    IF p \in InputFiles THEN ins[p] ELSE outs[p]]
    /\ pc = "main"
    /\ args = NotCalled
    /\ loc = InitLoc
    /\ calls = <<>> /\ live = {} /\ written = {} /\ ret = None /\ exit_code = None /\ warnings = {}
    /\ duration_str = None /\ parse_result = None
    /\ file_path = Idle /\ validate_result = Idle

NextCli ==
    \/ ConcatMain \/ ConvertMain \/ RemoveMain \/ SplitVideoMain \/ SplitAudioMain
    \/ concat_videos \/ convert_video \/ remove_audio \/ split_video \/ split_audio
    \/ MainExit

SpecCli == InitCli /\ [][NextCli]_vars

----------------------------------------------------------------------------
\* Claims about the orchestration functions called directly.

Splits == {"split_video", "split_audio"}

CallsOf(names) == {i \in 1..Len(calls) : calls[i].call \in names}

Encodes == CallsOf({"encode"})

CloseTried(h) == \E i \in CallsOf({"close"}) : calls[i].h = h

\* C1: when an orchestration function has returned, on whatever path, every
\* engine handle it opened has been closed (a close was at least called on it).
C1_HandlesClosedOnReturn ==
    pc = "returned" => \A h \in live : CloseTried(h)

\* C2: every orchestration function ends by returning a pair (success,
\* message), never by an exception, whichever engine call or check fails;
\* the message is empty exactly when success is true.
C2_ReturnsPairNeverRaises ==
    pc = "returned" =>
        /\ ret # None
        /\ ~Val(ret).raised
        /\ Val(ret).success <=> MsgEmpty(Val(ret).message)

\* An encode raised an exception with an empty text after another output was
\* written, and the function returned (False, non-empty message).
C2_Witness ==
    /\ pc = "returned"
    /\ \E i \in Encodes : ~calls[i].ok
    /\ written # {}
    /\ ~Val(ret).raised /\ ~Val(ret).success
    /\ Val(ret).message.arg = <<"">>

ExceedsText == IF op = "split_audio" THEN "Split duration exceeds audio length"
               ELSE "Split duration exceeds video length"

\* The split point is at or past the total duration the source reported.
PastEnd ==
    /\ loc.total_duration # None
    /\ FloatGE(args.duration_seconds, Val(loc.total_duration))

WithQuality == {"split_video", "remove_audio", "split_audio"}

\* The parameters C10 names for each preset.
ClaimedCrf(q) == CASE q = "high" -> 18 [] q = "medium" -> 23 [] q = "low" -> 28

ClaimedBitrate(q) == CASE q = "high" -> "192k" [] q = "medium" -> "128k" [] q = "low" -> "96k"

EncodesUseClaimedQuality ==
    \A i \in Encodes :
        IF op = "split_audio"
        THEN calls[i].params.bitrate = Some(ClaimedBitrate(args.quality))
        ELSE calls[i].params.crf = Some(ClaimedCrf(args.quality))

\* C10 as stated: 'high', 'medium', 'low' give CRF 18/23/28 or bitrate
\* 192k/128k/96k in every encode; any other quality value gives
\* (False, 'Invalid quality preset: <value>...') and no engine call.
C10_QualityResolution ==
    op \in WithQuality =>
        /\ calls # <<>> => args.quality \in {"high", "medium", "low"}
        /\ EncodesUseClaimedQuality
        /\ (pc = "returned" /\ args.quality \notin {"high", "medium", "low"}) =>
              Val(ret) = Returned(FALSE, Msg("Invalid quality preset: ",
                                             <<args.quality>>))

\* C10 as amended: the same, except that split_video and split_audio given a
\* split point <= 0 report 'Duration must be positive' whatever the quality
\* value is, the duration being checked first.
C10_QualityResolutionAfterDuration ==
    op \in WithQuality =>
        /\ calls # <<>> => args.quality \in {"high", "medium", "low"}
        /\ EncodesUseClaimedQuality
        /\ (pc = "returned" /\ args.quality \notin {"high", "medium", "low"}) =>
              /\ ~Val(ret).success
              /\ calls = <<>>
              /\ Val(ret).message.text =
                    IF op \in Splits /\ ~Positive(args.duration_seconds)
                    THEN "Duration must be positive, got: "
                    ELSE "Invalid quality preset: "
              /\ Val(ret).message.text = "Invalid quality preset: " =>
                    Val(ret).message.arg = <<args.quality>>

\* split_video given 'low' encoded both parts at CRF 28 and succeeded.
C10_Witness ==
    /\ pc = "returned" /\ op = "split_video" /\ args.quality = "low"
    /\ Cardinality(Encodes) = 2
    /\ \A i \in Encodes : calls[i].params.crf = Some(28)
    /\ Val(ret).success

----------------------------------------------------------------------------
\* Claims about the scripts run from the command line.

\* The output paths in effect once main() has called the function.
OutputsInEffect ==
    IF op \in {"split_video", "split_audio"} THEN {args.output_part1, args.output_part2}
    ELSE {args.output_file}

InputPaths == {i.path : i \in InputsOf(op, argv)}

OutputIsAnInput ==
    \E o \in OutputsInEffect : \E i \in InputPaths : Abspath(o) = Abspath(i)

\* C4: in every script's command-line run, an output path in effect that is
\* the same absolute path as an input makes the run end with exit code 1
\* without any engine call.
C4_OutputSameAsInputRejected ==
    (Called /\ OutputIsAnInput) =>
        /\ calls = <<>>
        /\ exit_code # None => Val(exit_code).code = 1

\* The path given to the k-th encode call.
EncodePath(k) ==
    LET i == CHOOSE i \in Encodes : Cardinality({j \in Encodes : j <= i}) = k
    IN  Val(calls[i].path)

\* C5: every output the user named explicitly is the path handed to the
\* engine for that output; in the split scripts part by part, also when only
\* one of -o1 and -o2 is given.
C5_ExplicitOutputWins ==
    Called =>
        IF op \in {"split_video", "split_audio"}
        THEN /\ Given(argv.output1) =>
                  /\ args.output_part1 = Val(argv.output1)
                  /\ Cardinality(Encodes) >= 1 => EncodePath(1) = Val(argv.output1)
             /\ Given(argv.output2) =>
                  /\ args.output_part2 = Val(argv.output2)
                  /\ Cardinality(Encodes) >= 2 => EncodePath(2) = Val(argv.output2)
        ELSE Given(argv.output) =>
                  /\ args.output_file = Val(argv.output)
                  /\ \A i \in Encodes : calls[i].path = argv.output

----------------------------------------------------------------------------
\* Claims about the functions the tests import.

\* C11: the concatenate module exposes concat_video(input_file1,
\* input_file2, output_file, quality), and a call with a quality that is not
\* 'high', 'medium' or 'low' returns (False, 'Invalid quality preset: <value>
\* ...') and concatenates nothing.
C11_ConcatVideoRejectsBadQuality ==
    (/\ pc \in {"returned", "raised"} /\ op = "concat_video"
     /\ argv.name = "concat_video"
     /\ "quality" \in DOMAIN argv.kwargs /\ argv.kwargs.quality \notin Presets)
        => /\ Val(ret) = Returned(FALSE, InvalidQuality(argv.kwargs.quality))
           /\ calls = <<>>

\* C12: the split-video module exposes split_video_ffmpeg(input_file,
\* duration_seconds, output_part1, output_part2, quality), which returns
\* (False, 'Duration must be positive...') for a duration <= 0 and (False,
\* 'Invalid quality preset...') for a quality outside the three presets.
C12_SplitVideoFfmpegValidates ==
    (/\ pc \in {"returned", "raised"} /\ op = "split_video"
     /\ argv.name = "split_video_ffmpeg")
        => LET k == WithDefaults("split_video", argv.kwargs)
           IN  /\ ~Positive(k.duration_seconds) =>
                     /\ ~Val(ret).raised /\ ~Val(ret).success
                     /\ Val(ret).message.text = "Duration must be positive, got: "
               /\ (Positive(k.duration_seconds) /\ k.quality \notin Presets) =>
                     /\ ~Val(ret).raised /\ ~Val(ret).success
                     /\ Val(ret).message.text = "Invalid quality preset: "

----------------------------------------------------------------------------
\* Claims about validate_output_format.

\* The positions of the text that are not blank.
NonBlank(t) == {i \in 1..Len(t) : t[i] # " "}

EightFormats == {"mp4", "avi", "mov", "mkv", "flv", "wmv", "webm", "m4v"}

\* The text is one format name in any case, after at most one dot, with
\* blanks around it only.
NamesFormat(t) ==
    \E i \in 1..Len(t) :
        /\ LowerToken(t[i]) \in EightFormats
        /\ \/ NonBlank(t) = {i}
           \/ NonBlank(t) = {i - 1, i} /\ i > 1 /\ t[i - 1] = "."

\* C13: validate_output_format(f) returns (True, '') exactly when f,
\* trimmed, lowercased and without one leading dot, is one of the eight
\* formats; (False, 'Output format is empty') for None, empty or blank f;
\* (False, 'Unsupported ...') for every other f.
C13_FormatAccepted ==
    pc = "formatted" =>
        LET f == args.format_str
            r == Val(ret)
        IN  IF f = None \/ NonBlank(Val(f)) = {}
            THEN r = Pair(FALSE, Msg("Output format is empty", <<>>))
            ELSE IF NamesFormat(Val(f))
            THEN r = Pair(TRUE, NoMsg)
            ELSE ~r.success /\ r.message.text = "Unsupported output format: "

\* ' .MOV' was accepted.
C13_Witness ==
    /\ pc = "formatted"
    /\ args.format_str = Some(<<" ", ".", "MOV">>)
    /\ Val(ret) = Pair(TRUE, NoMsg)

----------------------------------------------------------------------------
\* Claims about the output path derivers.

\* Where the last extension of a name starts: at its last dot, unless that
\* dot opens or ends the name; 0 when the name has no extension.
ExtStart(n) ==
    IF \E i \in 2..(Len(n) - 1) : n[i] = "." /\ \A j \in (i + 1)..Len(n) : n[j] # "."
    THEN CHOOSE i \in 2..(Len(n) - 1) : n[i] = "." /\ \A j \in (i + 1)..Len(n) : n[j] # "."
    ELSE Len(n) + 1

RefExt(p) == SubSeq(p.name, ExtStart(p.name), Len(p.name))

RefStem(p) == SubSeq(p.name, 1, ExtStart(p.name) - 1)

\* C14: the concatenate deriver returns dir(p1)/stem(p1)_concat_stem(p2)
\* followed by the last extension of p1; nothing but the stem comes from p2.
C14_ConcatName ==
    (pc = "derived" /\ op = "concat_video") =>
        /\ Val(ret).parent = args.input1_path.parent
        /\ Val(ret).name = RefStem(args.input1_path) \o <<"_concat_">>
                              \o RefStem(args.input2_path) \o RefExt(args.input1_path)

\* sub/x.tar.gz and /d/X.MP4 gave sub/x.tar_concat_X.gz.
C14_Witness ==
    /\ pc = "derived" /\ op = "concat_video"
    /\ args.input1_path = Path("sub", <<"x", ".", "tar", ".", "gz">>)
    /\ args.input2_path = Path("/d", <<"X", ".", "MP4">>)
    /\ Val(ret) = Path("sub", <<"x", ".", "tar", "_concat_", "X", ".", "gz">>)

\* The target format without its leading dot, in lower case.
RefFormat(f) ==
    LET h == IF f # <<>> /\ Head(f) = "." THEN SubSeq(f, 2, Len(f)) ELSE f
    IN  [i \in 1..Len(h) |-> LowerToken(h[i])]

\* C15: the convert deriver returns dir(p)/stem(p).g, g being the target
\* format without its leading dot and in lower case; the extension of the
\* input does not appear.
C15_ConvertName ==
    (pc = "derived" /\ op = "convert_video") =>
        /\ Val(ret).parent = args.input_path.parent
        /\ Val(ret).name = RefStem(args.input_path) \o <<".">> \o RefFormat(args.output_format)

\* /d/X.MP4 with format '.MOV' gave /d/X.mov.
C15_Witness ==
    /\ pc = "derived" /\ op = "convert_video"
    /\ args.input_path = Path("/d", <<"X", ".", "MP4">>)
    /\ args.output_format = <<".", "MOV">>
    /\ Val(ret) = Path("/d", <<"X", ".", "mov">>)

\* The name with `marker` put right before its last extension.
Marked(p, marker) == Path(p.parent, RefStem(p) \o <<marker>> \o RefExt(p))

\* C16: the strip-audio deriver returns dir(p)/stem(p)_silent+ext(p), the
\* split derivers the pair with _part1 and _part2; directory and extension
\* are those of the input, and the marker stands before the last extension.
C16_MarkerBeforeLastExtension ==
    pc = "derived" =>
        /\ op = "remove_audio" => Val(ret) = Marked(args.input_path, "_silent")
        /\ op \in {"split_video", "split_audio"} =>
              Val(ret) = <<Marked(args.input_path, "_part1"),
                           Marked(args.input_path, "_part2")>>

\* The relative sub/x.tar.gz was split into sub/x.tar_part1.gz and
\* sub/x.tar_part2.gz.
C16_Witness ==
    /\ pc = "derived" /\ op = "split_audio"
    /\ args.input_path = Path("sub", <<"x", ".", "tar", ".", "gz">>)
    /\ Val(ret) = <<Path("sub", <<"x", ".", "tar", "_part1", ".", "gz">>),
                    Path("sub", <<"x", ".", "tar", "_part2", ".", "gz">>)>>

----------------------------------------------------------------------------
\* Claims about the two parts of a split.

\* The index of the k-th encode call, and of the trim that made its clip.
EncodeCall(k) == CHOOSE i \in Encodes : Cardinality({j \in Encodes : j <= i}) = k

TrimOf(i) == CHOOSE t \in CallsOf({"trim"}) : calls[t].new = calls[i].h

\* The split point lies strictly inside the total duration the source
\* reported, the quality is a preset and no engine call failed.
InRangeRun ==
    /\ op \in Splits /\ pc = "returned"
    /\ Positive(args.duration_seconds)
    /\ loc.total_duration # None
    /\ FloatLess(args.duration_seconds, Val(loc.total_duration))
    /\ args.quality \in Presets
    /\ \A i \in 1..Len(calls) : calls[i].ok

\* The source reported the same total duration each time it was loaded:
\* split_video reads it again from its second load, as the end of part 2.
SourceStable ==
    \A t \in CallsOf({"trim"}) :
        (/\ op = "split_video" /\ "video2" \in DOMAIN loc.clip
         /\ calls[t].h = loc.clip["video2"])
            => calls[t].range[2] = loc.total_duration

\* C17: with 0 < b < T and a valid preset, split_video and split_audio make
\* exactly two encode calls, of [0, b] to the part-1 output and of [b, T] to
\* the part-2 output, both with the resolved quality parameter, and return
\* success.
C17_TwoPartsMeetAtBoundary ==
    (InRangeRun /\ SourceStable) =>
        /\ Val(ret) = Returned(TRUE, NoMsg)
        /\ Cardinality(Encodes) = 2
        /\ Cardinality(CallsOf({"trim"})) = 2
        /\ LET e1 == EncodeCall(1)
               e2 == EncodeCall(2)
           IN  /\ calls[TrimOf(e1)].range =
                     <<Some(FloatOf(0)), Some(args.duration_seconds)>>
               /\ calls[TrimOf(e2)].range =
                     <<Some(args.duration_seconds), loc.total_duration>>
               /\ calls[e1].path = Some(args.output_part1)
               /\ calls[e2].path = Some(args.output_part2)
               /\ calls[e1].params = calls[e2].params
        /\ EncodesUseClaimedQuality
        /\ written = {args.output_part1, args.output_part2}

\* split_video cut a 3-second source at 1 second into [0, 1] and [1, 3].
C17_Witness ==
    /\ InRangeRun /\ SourceStable /\ op = "split_video"
    /\ args.duration_seconds = FloatOf(1)
    /\ loc.total_duration = Some(FloatOf(3))
    /\ Cardinality(Encodes) = 2
    /\ calls[TrimOf(EncodeCall(2))].range = <<Some(FloatOf(1)), Some(FloatOf(3))>>
    /\ Val(ret).success

----------------------------------------------------------------------------
\* Claims about the order of main(): validation, then the engine.

\* An input argument names a readable regular file of an allowed kind.
InputOk(i) ==
    /\ i.kind = "path"
    /\ LET st == fs[Abspath(i.path)]
       IN  st.exists /\ st.is_file /\ st.readable
    /\ \E e \in InputExts(op) :
          LET x == RefExt(i.path)
          IN  Len(x) = 2 /\ LowerToken(x[2]) = e

InputsOk == \A i \in InputsOf(op, argv) : InputOk(i)

\* The --duration text is one the reference of C8 gives a value.
DurationOk == op \in Splits => RefDuration(Some(argv.duration)) # None

\* C18: in every script's command-line run no engine call, open included, is
\* made unless every input passed validation and (splits) the duration text
\* parsed; a failure of either ends the run with exit code 1 before the
\* function is called, and concatenate reports its first input before its
\* second, as the splits report the input before the duration.
C18_ValidationBeforeEngine ==
    /\ calls # <<>> => InputsOk /\ DurationOk
    /\ ~(InputsOk /\ DurationOk) =>
          /\ pc \in {"main", "exited"} /\ ~Called /\ calls = <<>>
          /\ pc = "exited" =>
                /\ Val(exit_code).code = 1
                /\ ~MsgEmpty(Val(exit_code).error)
                /\ op = "concat_video" =>
                      Val(exit_code).error.arg[1] =
                          IF InputOk(argv.input1) THEN "second input" ELSE "first input"
                /\ op \in Splits =>
                      (Val(exit_code).error.text = "Invalid duration format: "
                          <=> InputsOk)

\* concat_video.py given two missing inputs exited with 1 on the first.
C18_Witness ==
    /\ pc = "exited" /\ op = "concat_video"
    /\ ~InputOk(argv.input1) /\ ~InputOk(argv.input2)
    /\ argv.input1.kind = "path"
    /\ calls = <<>>
    /\ Val(exit_code).code = 1
    /\ Val(exit_code).error.arg[1] = "first input"

----------------------------------------------------------------------------
\* Claims about the message of an engine failure.

\* The engine call that raised, if one did.
FailedCalls == {i \in 1..Len(calls) : ~calls[i].ok}

\* The prefix C19 names for each operation.
OperationPrefix ==
    CASE op = "concat_video" -> "Error concatenating videos: "
      [] op = "convert_video" -> "Error converting video: "
      [] op = "remove_audio" -> "Error removing audio from video: "
      [] op = "split_video" -> "Error splitting video: "
      [] op = "split_audio" -> "Error splitting audio: "

\* How many times the source had been opened when call i was made.
LoadsUpTo(i) == Cardinality({j \in CallsOf({"open"}) : j <= i})

\* C19 as stated: when an engine call raised, the returned message is the
\* operation's one fixed prefix followed by the engine's error text, in
\* split_audio too and for either part.
C19_FixedPrefix ==
    (pc = "returned" /\ FailedCalls # {}) =>
        /\ Val(ret) \in {Returned(FALSE, Msg(OperationPrefix, <<e>>)) : e \in Errors}

\* C19 as amended: the same, except that split_audio reports a failure while
\* it creates a part (from the load for that part to its close) with
\* 'Failed to create part 1: ' or 'Failed to create part 2: ' before the
\* engine's text; its first load and close keep 'Error splitting audio: '.
C19_PrefixPerOperationAndPart ==
    (pc = "returned" /\ FailedCalls # {}) =>
        LET i == CHOOSE i \in FailedCalls : TRUE
            prefix ==
                IF op = "split_audio" /\ LoadsUpTo(i) = 2 THEN "Failed to create part 1: "
                ELSE IF op = "split_audio" /\ LoadsUpTo(i) = 3
                THEN "Failed to create part 2: "
                ELSE OperationPrefix
        IN  /\ Cardinality(FailedCalls) = 1
            /\ Val(ret) \in {Returned(FALSE, Msg(prefix, <<e>>)) : e \in Errors}

\* split_audio's encode of part 2 raised and 'Failed to create part 2: ' was
\* returned; part 1 had been written.
C19_Witness ==
    /\ pc = "returned" /\ op = "split_audio"
    /\ \E i \in FailedCalls : calls[i].call = "encode" /\ LoadsUpTo(i) = 3
    /\ written = {args.output_part1}
    /\ Val(ret) = Returned(FALSE, Msg("Failed to create part 2: ", <<"engine error">>))

----------------------------------------------------------------------------
\* C20

\* A filesystem that differs from fs at most in whether outputs exist.
OutputsPreExistDifferently(alt) ==
    /\ DOMAIN alt = DOMAIN fs
    /\ \A p \in InputFiles : alt[p] = fs[p]
    /\ \A p \in OutputFiles \ InputFiles : alt[p] \in OutputStats

AlternativeRuns ==
    {alt \in [DOMAIN fs -> CliStats \cup OutputStats] : OutputsPreExistDifferently(alt)}

\* C20: a run whose outputs pre-exist differently (same command line, same
\* inputs) makes main() take the same decision: the same exit code and
\* message, or the same call with the same arguments, so the same engine
\* calls and result follow; only the overwrite warnings may differ.
C20_PreExistenceNeverBlocks ==
    (pc = "main") =>
        \A alt \in AlternativeRuns :
            /\ main(alt).exit = main(fs).exit
            /\ main(alt).call = main(fs).call

\* A run that warned about an existing output, wrote it and exited with 0.
C20_Witness ==
    /\ pc = "exited"
    /\ warnings # {}
    /\ exit_code # None /\ Val(exit_code).code = 0
    /\ \E o \in warnings : o \in written /\ fs[Abspath(o)].exists

----------------------------------------------------------------------------
\* C21

Opens == CallsOf({"open"})

Trims == CallsOf({"trim"})

\* The handles the engine gave for loads of the source, and those still open.
SourceHandles == {calls[i].new : i \in {j \in Opens : calls[j].ok}}

OpenSources == SourceHandles \cap live

\* The load that gave handle h.
OpenOf(h) == CHOOSE i \in Opens : calls[i].ok /\ calls[i].new = h

ClosedBefore(h, i) ==
    \E c \in CallsOf({"close"}) : c < i /\ calls[c].ok /\ calls[c].h = h

Succeeded == pc = "returned" /\ ~Val(ret).raised /\ Val(ret).success

\* Each part is cut from a load of its own, every encode is of a cut, the
\* load part 1 was cut from is closed before the load for part 2 is made,
\* and at most one load is open at any time.
SessionPerPart ==
    /\ Cardinality(OpenSources) <= 1
    /\ \A t \in Trims : calls[t].h \in SourceHandles
    /\ \A e \in Encodes : \E t \in Trims : calls[t].ok /\ calls[t].new = calls[e].h
    /\ \A t1, t2 \in Trims :
          t1 < t2 => /\ calls[t1].h # calls[t2].h
                     /\ ClosedBefore(calls[t1].h, OpenOf(calls[t2].h))
                     /\ OpenOf(calls[t1].h) < t1 /\ t1 < OpenOf(calls[t2].h)

\* C21 as stated: in split_video and split_audio each part has its own
\* session over the source, strictly one after the other, and a successful
\* split has opened the source exactly twice.
C21_TwoSessionsTwoLoads ==
    op \in Splits =>
        /\ SessionPerPart
        /\ Succeeded => Cardinality(Opens) = 2

\* C21: in split_video and split_audio each part has its own session over
\* the source, strictly one after the other; a successful split_video has
\* opened the source exactly twice, a successful split_audio exactly three
\* times (once to read the duration, once for each part).
C21_SessionPerPartInSequence ==
    op \in Splits =>
        /\ SessionPerPart
        /\ Succeeded => Cardinality(Opens) = IF op = "split_video" THEN 2 ELSE 3

\* A successful split_audio: three loads, two cuts from the last two.
C21_Witness ==
    /\ op = "split_audio" /\ Succeeded
    /\ Cardinality(Opens) = 3 /\ Cardinality(Trims) = 2
    /\ \E t1, t2 \in Trims : t1 < t2 /\ calls[t1].h = 2 /\ calls[t2].h = 4
    /\ live = {}

----------------------------------------------------------------------------
\* C22

\* The encode of part 1 succeeded.
Part1Encoded ==
    \E e \in Encodes : calls[e].ok /\ calls[e].path = Some(args.output_part1)

\* The calls of the part-2 session that failed: a load, cut or encode made
\* after part 1 was encoded.
Part2Failures ==
    {i \in FailedCalls :
        /\ calls[i].call \in {"open", "trim", "encode"}
        /\ \E e \in Encodes : e < i /\ calls[e].ok}

\* C22: in split_video and split_audio, once part 1 is encoded, a failure
\* of the load, cut or encode of part 2 makes the function return failure;
\* the part-1 output stays written and the failed call is the last engine
\* call made.
C22_Part2FailureKeepsPart1 ==
    (op \in Splits /\ Part2Failures # {}) =>
        /\ Part1Encoded
        /\ pc = "returned" /\ ~Val(ret).raised /\ ~Val(ret).success
        /\ args.output_part1 \in written
        /\ args.output_part2 \notin written
        /\ Part2Failures = {Len(calls)}
        /\ Cardinality(Encodes) <= 2 /\ Cardinality(Opens) <= 3

\* split_video whose second encode failed after the first was written.
C22_Witness ==
    /\ op = "split_video" /\ pc = "returned"
    /\ Cardinality(Encodes) = 2
    /\ calls[EncodeCall(1)].ok /\ ~calls[EncodeCall(2)].ok
    /\ EncodeCall(2) = Len(calls)
    /\ written = {args.output_part1}
    /\ ~Val(ret).success

----------------------------------------------------------------------------
\* C23

DurationReads == CallsOf({"duration"})

Concats == CallsOf({"concatenate"})

\* The k-th load made and the k-th duration read, in the order of the log.
OpenCall(k) == CHOOSE i \in Opens : Cardinality({j \in Opens : j <= i}) = k

DurationCall(k) ==
    CHOOSE i \in DurationReads : Cardinality({j \in DurationReads : j <= i}) = k

\* Duration read number k gave None or a value that is not positive.
BadDuration(k) ==
    /\ Cardinality(DurationReads) >= k
    /\ LET d == calls[DurationCall(k)].val
       IN  d = None \/ ~Positive(Val(d))

NoEngineFailure == FailedCalls = {}

\* Load 1, its duration, load 2, its duration, in that order and on the
\* inputs in the order given.
LoadsInInputOrder ==
    /\ Cardinality(Opens) <= 2 /\ Cardinality(DurationReads) <= 2
    /\ Opens # {} => calls[OpenCall(1)].path = Some(args.input_file1)
    /\ DurationReads # {} =>
          /\ OpenCall(1) < DurationCall(1)
          /\ calls[DurationCall(1)].h = calls[OpenCall(1)].new
    /\ Cardinality(Opens) = 2 =>
          /\ calls[OpenCall(2)].path = Some(args.input_file2)
          /\ DurationReads # {} /\ DurationCall(1) < OpenCall(2)
          /\ ~BadDuration(1)
    /\ Cardinality(DurationReads) = 2 =>
          /\ OpenCall(2) < DurationCall(2)
          /\ calls[DurationCall(2)].h = calls[OpenCall(2)].new

\* A concatenate call is made once, after both durations were found
\* positive, on clip 1 then clip 2; an encode is made once, of what that
\* call gave, to the output path.
OneConcatOneEncode ==
    /\ Cardinality(Concats) <= 1 /\ Cardinality(Encodes) <= 1
    /\ \A c \in Concats :
          /\ Cardinality(DurationReads) = 2 /\ DurationCall(2) < c
          /\ ~BadDuration(1) /\ ~BadDuration(2)
          /\ calls[c].srcs = <<calls[OpenCall(1)].new, calls[OpenCall(2)].new>>
    /\ \A e \in Encodes :
          /\ \E c \in Concats : c < e /\ calls[c].ok /\ calls[c].new = calls[e].h
          /\ calls[e].path = Some(args.output_file)

\* C23: concat_videos loads input 1 and checks its duration before it loads
\* input 2; a duration of video N that is absent or not positive gives
\* (False, 'Unable to determine duration for video N: <path>') and no
\* concatenate or encode call; otherwise there is exactly one concatenate
\* call on clip 1 then clip 2, followed by exactly one encode to the
\* output path.
C23_ConcatOrder ==
    op = "concat_video" =>
        /\ LoadsInInputOrder
        /\ OneConcatOneEncode
        /\ (BadDuration(1) \/ BadDuration(2)) => Concats = {} /\ Encodes = {}
        /\ (pc = "returned" /\ NoEngineFailure) =>
              /\ BadDuration(1) =>
                    Val(ret) = Returned(FALSE, Msg("Unable to determine duration for video 1: ",
                                                   <<args.input_file1>>))
              /\ BadDuration(2) =>
                    Val(ret) = Returned(FALSE, Msg("Unable to determine duration for video 2: ",
                                                   <<args.input_file2>>))
              /\ (~BadDuration(1) /\ ~BadDuration(2)) =>
                    /\ Cardinality(Concats) = 1 /\ Cardinality(Encodes) = 1
                    /\ Val(ret) = Returned(TRUE, NoMsg)

\* A run of two positive durations that concatenated and encoded once.
C23_Witness ==
    /\ op = "concat_video" /\ pc = "returned" /\ NoEngineFailure
    /\ Cardinality(Concats) = 1 /\ Cardinality(Encodes) = 1
    /\ calls[EncodeCall(1)].path = Some(args.output_file)
    /\ args.output_file \in written
    /\ Val(ret).success

----------------------------------------------------------------------------
\* C24

\* What `video.audio is not None` gave, once it was looked at.
AudioTrackSeen(b) ==
    \E i \in CallsOf({"audio"}) : calls[i].val = Some(b)

\* C24: remove_audio with a quality preset: an encode is made only after a
\* positive duration was read, at most once, with audio disabled and the
\* CRF of the preset; when no engine call fails, a positive duration gives
\* exactly one such encode and success, with or without an audio track in
\* the source, and an absent or non-positive duration gives failure and no
\* encode.
C24_OneSilentEncode ==
    (op = "remove_audio" /\ args.quality \in Presets) =>
        /\ Cardinality(Encodes) <= 1
        /\ \A e \in Encodes :
              /\ ~BadDuration(1)
              /\ calls[e].params.audio = FALSE
              /\ calls[e].params.audio_codec = None
              /\ calls[e].params.crf = Some(ClaimedCrf(args.quality))
              /\ calls[e].path = Some(args.output_file)
        /\ (pc = "returned" /\ NoEngineFailure /\ DurationReads # {}) =>
              IF BadDuration(1)
              THEN Encodes = {} /\ ~Val(ret).success /\ ~Val(ret).raised
              ELSE /\ Cardinality(Encodes) = 1
                   /\ Val(ret) = Returned(TRUE, NoMsg)
                   /\ AudioTrackSeen(TRUE) \/ AudioTrackSeen(FALSE)

\* A source that had no audio track, encoded silent at CRF 18.
C24_Witness ==
    /\ op = "remove_audio" /\ pc = "returned" /\ NoEngineFailure
    /\ args.quality = "high"
    /\ AudioTrackSeen(FALSE)
    /\ Cardinality(Encodes) = 1
    /\ calls[EncodeCall(1)].params.crf = Some(18)
    /\ calls[EncodeCall(1)].params.audio = FALSE
    /\ Val(ret).success

----------------------------------------------------------------------------
\* C25

\* The target format of a convert run is in the allow-list: the extension
\* of the explicit output, or else the --format value once trimmed,
\* lowercased and without its leading dot.
TargetAllowed ==
    IF Given(argv.output)
    THEN \E e \in EightFormats : Lower(RefExt(Val(argv.output))) = <<".", e>>
    ELSE NamesFormat(argv.format)

\* C25: in the convert command-line run the engine is invoked only when
\* the target format is one of the eight allowed; for every other target,
\* an explicit output without extension included, the run ends with exit
\* code 1 before any engine call.
C25_EngineOnlyForAllowedFormat ==
    (op = "convert_video" /\ ~TargetAllowed) =>
        /\ ~Called /\ calls = <<>>
        /\ pc = "exited" => Val(exit_code).code = 1

----------------------------------------------------------------------------
\* C26

\* The encoder pair the claim gives for an extension in lower case: video
\* codec and audio codec (None when none is handed to the engine).
ClaimedEncoders(ext) ==
    CASE ext = <<".", "webm">> -> <<"libvpx", Some("libvorbis")>>
      [] ext = <<".", "avi">> -> <<"png", None>>
      [] OTHER -> <<"libx264", Some("aac")>>

\* C26: convert_video encodes at most once, to the output path, with the
\* encoder pair of the output's lowercased extension: libvpx and libvorbis
\* for .webm, png and no audio codec for .avi, libx264 and aac for .mp4,
\* .mov and every other or missing extension, whatever the input's
\* extension; it encodes exactly once when the duration is positive and no
\* engine call fails.
C26_CodecFromOutputExtension ==
    op = "convert_video" =>
        LET claimed == ClaimedEncoders(Lower(RefExt(args.output_file)))
        IN  /\ Cardinality(Encodes) <= 1
            /\ \A e \in Encodes :
                  /\ calls[e].path = Some(args.output_file)
                  /\ calls[e].params.codec = claimed[1]
                  /\ calls[e].params.audio_codec = claimed[2]
                  /\ calls[e].params.crf = None /\ calls[e].params.audio
            /\ (pc = "returned" /\ NoEngineFailure /\ ~BadDuration(1)) =>
                  Cardinality(Encodes) = 1 /\ Val(ret) = Returned(TRUE, NoMsg)

\* x.avi converted to out.MOV with libx264 and aac.
C26_Witness ==
    /\ op = "convert_video" /\ pc = "returned" /\ NoEngineFailure
    /\ args.input_file = Path(".", <<"x", ".", "avi">>)
    /\ args.output_file = Path(".", <<"out", ".", "MOV">>)
    /\ Cardinality(Encodes) = 1
    /\ calls[EncodeCall(1)].params.codec = "libx264"
    /\ calls[EncodeCall(1)].params.audio_codec = Some("aac")
    /\ Val(ret).success

----------------------------------------------------------------------------
\* C27

\* The codec the claim's table gives for an extension in lower case.
ClaimedAudioCodec(ext) ==
    CASE ext \in {<<".", "m4a">>, <<".", "aac">>} -> "aac"
      [] ext = <<".", "mp3">> -> "libmp3lame"
      [] ext = <<".", "wav">> -> "pcm_s16le"
      [] ext = <<".", "flac">> -> "flac"
      [] ext = <<".", "ogg">> -> "libvorbis"
      [] OTHER -> "aac"

\* C27: split_audio encodes each part with the codec the table gives for
\* the extension of that part's own output path, also when the two outputs
\* have different extensions.
C27_CodecPerPart ==
    op = "split_audio" =>
        \A e \in Encodes :
            calls[e].params.codec = ClaimedAudioCodec(Lower(RefExt(Val(calls[e].path))))

----------------------------------------------------------------------------
\* C28

\* The format a text names, in lower case (for the texts NamesFormat holds of).
NamedFormat(t) ==
    LowerToken(t[CHOOSE i \in 1..Len(t) : LowerToken(t[i]) \in EightFormats])

\* C28: when the converter's main() derives the output name from a --format
\* value that validate_output_format accepted, the derived path's extension
\* is '.' followed by exactly the normalized format that was validated, and
\* convert_video encodes with the encoders of that format.
C28_DerivedExtensionIsValidatedFormat ==
    (op = "convert_video" /\ Called /\ ~Given(argv.output)) =>
        /\ validate_output_format(Some(argv.format)).success
        /\ NamesFormat(argv.format)
        /\ RefExt(args.output_file) = <<".", NamedFormat(argv.format)>>
        /\ \A e \in Encodes :
              <<calls[e].params.codec, calls[e].params.audio_codec>>
                  = ClaimedEncoders(<<".", NamedFormat(argv.format)>>)

----------------------------------------------------------------------------
\* C29

\* The cuts split_video made from its second load of the source.
Part2Trims ==
    {t \in Trims : "video2" \in DOMAIN loc.clip /\ calls[t].h = loc.clip["video2"]}

\* C29: in split_video the part-2 range runs from the boundary to the total
\* duration T the boundary was validated against (0 < boundary < T), so it
\* is never empty, reversed or open-ended, whatever duration the second
\* load of the source reports.
C29_Part2EndsAtValidatedTotal ==
    op = "split_video" =>
        \A t \in Part2Trims :
            /\ loc.total_duration # None
            /\ calls[t].range = <<Some(args.duration_seconds), loc.total_duration>>
            /\ calls[t].range[2] # None
            /\ FloatLess(args.duration_seconds, Val(calls[t].range[2]))

----------------------------------------------------------------------------
\* C30

\* No output option was given on the command line.
NoExplicitOutput ==
    IF op \in Splits THEN ~Given(argv.output1) /\ ~Given(argv.output2)
    ELSE ~Given(argv.output)

\* The converter's derived name is the input itself.
DerivedIsInput ==
    /\ op = "convert_video" /\ argv.input.kind = "path"
    /\ Abspath(convert_generate_output_filename(argv.input.path, argv.format))
          = Abspath(argv.input.path)

\* C30: when no explicit output is given, no output path handed to the
\* function or to an encode is one of the input paths, the two split parts
\* differ from each other, and a convert run whose derived name is its
\* input ends with exit code 1 before any engine call.
C30_DerivedOutputNeverAnInput ==
    NoExplicitOutput =>
        /\ Called =>
              /\ ~OutputIsAnInput
              /\ \A e \in Encodes : \A i \in InputPaths :
                    Abspath(Val(calls[e].path)) # Abspath(i)
              /\ op \in Splits => Abspath(args.output_part1) # Abspath(args.output_part2)
        /\ DerivedIsInput =>
              /\ ~Called /\ calls = <<>>
              /\ pc = "exited" => Val(exit_code).code = 1

\* x.mp4 converted to mp4 with no -o: rejected as the same file.
C30_Witness ==
    /\ op = "convert_video" /\ pc = "exited"
    /\ NoExplicitOutput /\ DerivedIsInput
    /\ argv.format = <<"mp4">>
    /\ Val(exit_code).code = 1
    /\ Val(exit_code).error.text = "Input and output files are the same: "
    /\ calls = <<>>

====
